---- MODULE Spec2Model ----
(***************************************************************************)
(* A model of the Obsidian-to-Confluence publishing core:                  *)
(*   - the ADF-to-storage markup codec (AdfToStorageFormat),               *)
(*   - the transport adapter MyBaseClient.sendRequest with its attachment  *)
(*     name cache and its duplicate-name retry protocol.                   *)
(*                                                                         *)
(* Text is a sequence of lexemes (strings): a lexeme is either one of the  *)
(* characters the code treats specially (& < > " : and white space), or a  *)
(* run of other characters ("diagram.png", "/wiki/spaces/").  JavaScript   *)
(* string concatenation is \o, and the empty string is << >>.              *)
(*                                                                         *)
(* A JavaScript object is a record; a property that is absent (undefined)  *)
(* is a field that is not in the record's domain.                          *)
(***************************************************************************)
EXTENDS Integers, Sequences, FiniteSets, TLC

\* ------------------------------------------------------------------ bounds

\* Longest results sequence a response body carries.
MaxResults == 2

\* ----------------------------------------------------------------- helpers

Has(r, f) == f \in DOMAIN r

\* r.f ?? d
Get(r, f, d) == IF f \in DOMAIN r THEN r[f] ELSE d

\* node.attrs ?? {}
Attrs(node) == IF "attrs" \in DOMAIN node THEN node.attrs ELSE [none |-> TRUE]

Range(s) == {s[i] : i \in 1..Len(s)}

RECURSIVE Flatten(_)
Flatten(ss) == IF ss = << >> THEN << >> ELSE Head(ss) \o Flatten(Tail(ss))

\* [...s].reverse()
Reverse(s) == [i \in 1..Len(s) |-> s[Len(s) + 1 - i]]

\* The sequences over S of length at most n with no element repeated.
RECURSIVE DistinctSeqs(_, _)
DistinctSeqs(S, n) ==
    IF n = 0 THEN {<< >>}
    ELSE LET shorter == DistinctSeqs(S, n - 1)
         IN  shorter \cup {Append(s, e) : s \in shorter, e \in {d \in S : TRUE}}

NoRepeat(s) == \A i, j \in 1..Len(s) : i # j => s[i] # s[j]

\* White space lexemes (\s).
IsSpace(t) == t \in {" ", "\n", "\t"}

\* String.prototype.trim
RECURSIVE TrimLeft(_)
TrimLeft(s) == IF s # << >> /\ IsSpace(Head(s)) THEN TrimLeft(Tail(s)) ELSE s

Trim(s) == Reverse(TrimLeft(Reverse(TrimLeft(s))))

\* ---------------------------------------------------------- the markup codec

\* escapeHtml: & < > " become entities, everything else is kept.
EscapeChar(t) ==
    CASE t = "&" -> "&amp;"
      [] t = "<" -> "&lt;"
      [] t = ">" -> "&gt;"
      [] t = "\"" -> "&quot;"
      [] OTHER -> t

escapeHtml(text) == [i \in 1..Len(text) |-> EscapeChar(text[i])]

\* applyMark: one mark's wrapper around the markup built so far.
applyMark(mark, innerHtml) ==
    LET type == Get(mark, "type", "")
        a == Attrs(mark)
    IN  CASE type = "strong" -> <<"<strong>">> \o innerHtml \o <<"</strong>">>
          [] type = "em" -> <<"<em>">> \o innerHtml \o <<"</em>">>
          [] type = "code" -> <<"<code>">> \o innerHtml \o <<"</code>">>
          [] type = "strike" -> <<"<s>">> \o innerHtml \o <<"</s>">>
          [] type = "underline" -> <<"<u>">> \o innerHtml \o <<"</u>">>
          [] type = "subsup" ->
                IF Get(a, "type", "") = "sub"
                THEN <<"<sub>">> \o innerHtml \o <<"</sub>">>
                ELSE IF Get(a, "type", "") = "sup"
                     THEN <<"<sup>">> \o innerHtml \o <<"</sup>">>
                     ELSE innerHtml
          [] type = "textColor" ->
                <<"<span style=\"color: ">> \o escapeHtml(Get(a, "color", << >>))
                    \o <<"\">">> \o innerHtml \o <<"</span>">>
          [] type = "link" ->
                <<"<a href=\"">> \o escapeHtml(Get(a, "href", << >>))
                    \o <<"\">">> \o innerHtml \o <<"</a>">>
          [] OTHER -> innerHtml

\* The for loop of convertText over [...node.marks].reverse().
RECURSIVE ApplyMarks(_, _)
ApplyMarks(reversedMarks, html) ==
    IF reversedMarks = << >> THEN html
    ELSE ApplyMarks(Tail(reversedMarks), applyMark(Head(reversedMarks), html))

\* A slip that applies the marks in declaration order, first mark innermost.
convertTextInDeclarationOrder(node) ==
    LET html == escapeHtml(Get(node, "text", << >>))
    IN  IF Has(node, "marks") THEN ApplyMarks(node.marks, html) ELSE html

convertText(node) ==
    LET html == escapeHtml(Get(node, "text", << >>))
    IN  IF Has(node, "marks") THEN ApplyMarks(Reverse(node.marks), html) ELSE html

\* A slip that entity-escapes the code like any other text.
convertCodeBlockEscaping(node) ==
    LET language == Get(Attrs(node), "language", << >>)
        code == Flatten([i \in 1..Len(Get(node, "content", << >>)) |->
                            Get(node.content[i], "text", << >>)])
        langParam == IF language # << >>
                     THEN <<"<ac:parameter ac:name=\"language\">">>
                              \o escapeHtml(language) \o <<"</ac:parameter>">>
                     ELSE << >>
    IN  <<"<ac:structured-macro ac:name=\"code\">">> \o langParam
            \o <<"<ac:plain-text-body>", "<![CDATA[">> \o escapeHtml(code)
            \o <<"]]>", "</ac:plain-text-body>", "</ac:structured-macro>">>

\* child.text ?? "" of every child, joined, never escaped.
convertCodeBlock(node) ==
    LET language == Get(Attrs(node), "language", << >>)
        code == Flatten([i \in 1..Len(Get(node, "content", << >>)) |->
                            Get(node.content[i], "text", << >>)])
        langParam == IF language # << >>
                     THEN <<"<ac:parameter ac:name=\"language\">">>
                              \o escapeHtml(language) \o <<"</ac:parameter>">>
                     ELSE << >>
    IN  <<"<ac:structured-macro ac:name=\"code\">">> \o langParam
            \o <<"<ac:plain-text-body>", "<![CDATA[">> \o code
            \o <<"]]>", "</ac:plain-text-body>", "</ac:structured-macro>">>

\* A slip that prefers the alt text to the explicit file name.
convertMediaPreferringAlt(node) ==
    LET attrs == Attrs(node)
        alt == Get(attrs, "alt", << >>)
        filename == IF alt # << >> THEN alt ELSE Get(attrs, "__fileName", << >>)
        width == IF Get(attrs, "width", << >>) # << >>
                 THEN <<" ac:width=\"">> \o attrs.width \o <<"\"">>
                 ELSE << >>
    IN  IF Get(attrs, "type", "") = "external"
        THEN <<"<ac:image">> \o width \o <<">", "<ri:url ri:value=\"">>
                 \o escapeHtml(Get(attrs, "url", << >>)) \o <<"\" />", "</ac:image>">>
        ELSE IF filename # << >>
             THEN <<"<ac:image">> \o width \o <<">", "<ri:attachment ri:filename=\"">>
                      \o escapeHtml(filename) \o <<"\" />", "</ac:image>">>
             ELSE << >>

\* convertMedia never looks at the attachment cache: a media node that has
\* neither __fileName nor alt is dropped.
convertMedia(node) ==
    LET attrs == Attrs(node)
        fileName == Get(attrs, "__fileName", << >>)
        filename == IF fileName # << >> THEN fileName ELSE Get(attrs, "alt", << >>)
        width == IF Get(attrs, "width", << >>) # << >>
                 THEN <<" ac:width=\"">> \o attrs.width \o <<"\"">>
                 ELSE << >>
    IN  IF Get(attrs, "type", "") = "external"
        THEN <<"<ac:image">> \o width \o <<">", "<ri:url ri:value=\"">>
                 \o escapeHtml(Get(attrs, "url", << >>)) \o <<"\" />", "</ac:image>">>
        ELSE IF filename # << >>
             THEN <<"<ac:image">> \o width \o <<">", "<ri:attachment ri:filename=\"">>
                      \o escapeHtml(filename) \o <<"\" />", "</ac:image>">>
             ELSE << >>

RECURSIVE convertNode(_)
\* convertChildren: the children's markup, in order.
convertChildren(node) ==
    IF Has(node, "content")
    THEN Flatten([i \in 1..Len(node.content) |-> convertNode(node.content[i])])
    ELSE << >>

\* A slip that drops a node of unknown type together with its children.
convertUnknownDropping(node) == << >>

\* convertNode, the default case (lines 214-217): children only.
convertUnknown(node) == convertChildren(node)

convertPanel(node) ==
    <<"<ac:structured-macro ac:name=\"panel\">", "<ac:parameter ac:name=\"panelType\">">>
        \o escapeHtml(Get(Attrs(node), "panelType", <<"info">>))
        \o <<"</ac:parameter>", "<ac:rich-text-body>">> \o convertChildren(node)
        \o <<"</ac:rich-text-body>", "</ac:structured-macro>">>

convertExpand(node) ==
    <<"<ac:structured-macro ac:name=\"expand\">", "<ac:parameter ac:name=\"title\">">>
        \o escapeHtml(Get(Attrs(node), "title", << >>))
        \o <<"</ac:parameter>", "<ac:rich-text-body>">> \o convertChildren(node)
        \o <<"</ac:rich-text-body>", "</ac:structured-macro>">>

convertTable(node) ==
    LET width == Get(Attrs(node), "width", 0)
        layout == Get(Attrs(node), "layout", << >>)
        styleAttr == IF width # 0
                     THEN <<" style=\"", "width: ", ToString(width), "px;", "\"">>
                     ELSE << >>
        classAttr == IF layout # << >>
                     THEN <<" class=\"">> \o escapeHtml(layout) \o <<"\"">>
                     ELSE << >>
    IN  <<"<table">> \o classAttr \o styleAttr \o <<">", "<tbody>">>
            \o convertChildren(node) \o <<"</tbody>", "</table>">>

\* A slip that emits the span attributes from 1 on (>= 1 instead of > 1).
convertTableCellFromOne(tag, node) ==
    LET attrs == Attrs(node)
        colspan == Get(attrs, "colspan", 0)
        rowspan == Get(attrs, "rowspan", 0)
        background == Get(attrs, "background", << >>)
        parts == (IF colspan # 0 /\ colspan >= 1
                  THEN <<" colspan=\"", ToString(colspan), "\"">> ELSE << >>)
              \o (IF rowspan # 0 /\ rowspan >= 1
                  THEN <<" rowspan=\"", ToString(rowspan), "\"">> ELSE << >>)
              \o (IF background # << >>
                  THEN <<" style=\"background-color: ">> \o escapeHtml(background)
                           \o <<"\"">>
                  ELSE << >>)
    IN  <<"<" \o tag>> \o parts \o <<">">> \o convertChildren(node)
            \o <<"</" \o tag \o ">">>

convertTableCell(tag, node) ==
    LET attrs == Attrs(node)
        colspan == Get(attrs, "colspan", 0)
        rowspan == Get(attrs, "rowspan", 0)
        background == Get(attrs, "background", << >>)
        parts == (IF colspan # 0 /\ colspan > 1
                  THEN <<" colspan=\"", ToString(colspan), "\"">> ELSE << >>)
              \o (IF rowspan # 0 /\ rowspan > 1
                  THEN <<" rowspan=\"", ToString(rowspan), "\"">> ELSE << >>)
              \o (IF background # << >>
                  THEN <<" style=\"background-color: ">> \o escapeHtml(background)
                           \o <<"\"">>
                  ELSE << >>)
    IN  <<"<" \o tag>> \o parts \o <<">">> \o convertChildren(node)
            \o <<"</" \o tag \o ">">>

Wrap(open, node, close) == <<open>> \o convertChildren(node) \o <<close>>

convertNode(node) ==
    LET type == Get(node, "type", "")
        attrs == Attrs(node)
    IN  IF type = "" THEN << >>
        ELSE CASE type = "doc" -> convertChildren(node)
               [] type = "paragraph" -> Wrap("<p>", node, "</p>")
               [] type = "heading" ->
                     LET level == ToString(Get(attrs, "level", 1))
                     IN  Wrap("<h" \o level \o ">", node, "</h" \o level \o ">")
               [] type = "text" -> convertText(node)
               [] type = "hardBreak" -> <<"<br />">>
               [] type = "rule" -> <<"<hr />">>
               [] type = "bulletList" -> Wrap("<ul>", node, "</ul>")
               [] type = "orderedList" -> Wrap("<ol>", node, "</ol>")
               [] type = "listItem" -> Wrap("<li>", node, "</li>")
               [] type = "blockquote" -> Wrap("<blockquote>", node, "</blockquote>")
               [] type = "codeBlock" -> convertCodeBlock(node)
               [] type = "table" -> convertTable(node)
               [] type = "tableRow" -> Wrap("<tr>", node, "</tr>")
               [] type = "tableHeader" -> convertTableCell("th", node)
               [] type = "tableCell" -> convertTableCell("td", node)
               [] type = "mediaSingle" -> convertChildren(node)
               [] type = "mediaGroup" -> convertChildren(node)
               [] type = "media" -> convertMedia(node)
               [] type = "inlineCard" ->
                     <<"<a href=\"">> \o escapeHtml(Get(attrs, "url", << >>)) \o <<"\">">>
                         \o escapeHtml(Get(attrs, "url", << >>)) \o <<"</a>">>
               [] type = "emoji" ->
                     IF Has(attrs, "text") THEN attrs.text
                     ELSE Get(attrs, "shortName", << >>)
               [] type = "panel" -> convertPanel(node)
               [] type \in {"expand", "nestedExpand"} -> convertExpand(node)
               [] type = "status" ->
                     <<"<ac:structured-macro ac:name=\"status\">",
                       "<ac:parameter ac:name=\"title\">">>
                         \o escapeHtml(Get(attrs, "text", << >>))
                         \o <<"</ac:parameter>", "<ac:parameter ac:name=\"colour\">">>
                         \o escapeHtml(Get(attrs, "color", <<"neutral">>))
                         \o <<"</ac:parameter>", "</ac:structured-macro>">>
               [] type = "taskList" -> Wrap("<ul class=\"task-list\">", node, "</ul>")
               [] type = "taskItem" ->
                     <<"<li>", "<ac:task>", "<ac:task-status>",
                       IF Get(attrs, "state", "") = "DONE" THEN "complete" ELSE "incomplete",
                       "</ac:task-status>", "<ac:task-body>">>
                         \o convertChildren(node)
                         \o <<"</ac:task-body>", "</ac:task>", "</li>">>
               [] type = "mention" ->
                     <<"<ac:link>", "<ri:user ri:account-id=\"">>
                         \o escapeHtml(Get(attrs, "id", << >>)) \o <<"\" />", "</ac:link>">>
               [] OTHER -> convertUnknown(node)

\* convertAdfToStorageFormat(adf): the second argument the adapter passes
\* (the attachment cache) is not a parameter of the function and is ignored.
convertAdfToStorageFormat(adf) ==
    IF Get(adf, "type", "") = "doc" THEN convertChildren(adf) ELSE convertNode(adf)

\* Where the codec throws a TypeError: a null entry in a marks sequence
\* (applyMark reads mark.type) or a null child of a code block (child.text).
RECURSIVE convertThrows(_)

\* A slip that leaves out the guard of convertChildren (line 22): mapping over
\* the content of a node that has none throws as well.
convertThrowsWithoutContentGuard(node) ==
    \/ /\ Get(node, "type", "") = "text"
       /\ Has(node, "marks")
       /\ \E i \in 1..Len(node.marks) : Has(node.marks[i], "isNull")
    \/ /\ Get(node, "type", "") = "codeBlock"
       /\ Has(node, "content")
       /\ \E i \in 1..Len(node.content) : Has(node.content[i], "isNull")
    \/ /\ Get(node, "type", "") \notin
              {"", "text", "hardBreak", "rule", "codeBlock", "media", "inlineCard",
               "emoji", "status", "mention"}
       /\ ~Has(node, "content")
    \/ /\ Get(node, "type", "") # "codeBlock"
       /\ Has(node, "content")
       /\ \E i \in 1..Len(node.content) : convertThrows(node.content[i])

convertThrows(node) ==
    \/ /\ Get(node, "type", "") = "text"
       /\ Has(node, "marks")
       /\ \E i \in 1..Len(node.marks) : Has(node.marks[i], "isNull")
    \/ /\ Get(node, "type", "") = "codeBlock"
       /\ Has(node, "content")
       /\ \E i \in 1..Len(node.content) : Has(node.content[i], "isNull")
    \/ /\ Get(node, "type", "") # "codeBlock"
       /\ Has(node, "content")
       /\ \E i \in 1..Len(node.content) : convertThrows(node.content[i])

\* ------------------------------------------------------- requests and paths

\* A request path is its sequence of segments: /api/content/123 is
\* <<"api", "content", "123">>, and a trailing slash is a last segment "".

\* url.match(/^\/api\/content\//)
IsContentPath(url) == Len(url) >= 3 /\ url[1] = "api" /\ url[2] = "content"

\* url.match(/^\/api\/content\/[^/]+\/?$/)
IsPagePath(url) ==
    /\ IsContentPath(url)
    /\ url[3] # ""
    /\ \/ Len(url) = 3
       \/ Len(url) = 4 /\ url[4] = ""

\* url.match(/\/child\/attachment\/?$/)
IsAttachmentUploadPath(url) ==
    LET n == Len(url)
    IN  \/ n >= 2 /\ url[n - 1] = "child" /\ url[n] = "attachment"
        \/ n >= 3 /\ url[n - 2] = "child" /\ url[n - 1] = "attachment" /\ url[n] = ""

\* url.match(/\/child\/attachment/)
MentionsAttachment(url) ==
    \E i \in 1..(Len(url) - 1) : url[i] = "child" /\ url[i + 1] = "attachment"

\* The places where /\/api\/content\/([^/]+)\/child\/attachment/ matches.
PageIdMatches(url) ==
    {i \in 1..(Len(url) - 4) :
        /\ url[i] = "api" /\ url[i + 1] = "content" /\ url[i + 2] # ""
        /\ url[i + 3] = "child" /\ url[i + 4] = "attachment"}

HasPageIdMatch(url) == PageIdMatches(url) # {}

\* The captured group of the leftmost match.
PageIdOf(url) ==
    LET i == CHOOSE k \in PageIdMatches(url) : \A m \in PageIdMatches(url) : k <= m
    IN  url[i + 2]

\* String.prototype.toUpperCase on the method names in use.
ToUpperCase(m) ==
    CASE m = "put" -> "PUT"
      [] m = "get" -> "GET"
      [] m = "post" -> "POST"
      [] OTHER -> m

\* requestConfig.method?.toUpperCase() ?? "GET"
Verb(req) == IF Has(req, "method") THEN ToUpperCase(req.method) ELSE "GET"

\* The two deployment variants: the configured URL suffix.
SelfHostedSuffix == "/rest"
HostedSuffix == "/wiki/rest"
UrlSuffixes == {SelfHostedSuffix, HostedSuffix}

\* ------------------------------------------------------------ input values

DiagramPng == <<"diagram.png">>
NotesPdf == <<"my", " ", "notes.pdf">>
FileNames == {DiagramPng, NotesPdf}

PageId == "123"

\* Document trees the publisher serializes into body.atlas_doc_format.value.
LinkDoc ==
    [type |-> "doc",
     content |-> <<[type |-> "paragraph",
                    content |-> <<[type |-> "text", text |-> <<"see", " ", "A", "&", "B">>,
                                   marks |-> <<[type |-> "link",
                                                attrs |-> [href |-> <<"/wiki/spaces/", "DOC">>]]>>]>>]>>]

MediaDoc ==
    [type |-> "doc",
     content |-> <<[type |-> "mediaSingle",
                    content |-> <<[type |-> "media",
                                   attrs |-> [type |-> "file", id |-> "att1",
                                              collection |-> "contentId-123"]]>>],
                   [type |-> "paragraph",
                    content |-> <<[type |-> "text", text |-> <<"plain">>]>>]>>]

\* A tree with a null entry in a marks sequence: the codec throws on it.
BrokenDoc ==
    [type |-> "doc",
     content |-> <<[type |-> "paragraph",
                    content |-> <<[type |-> "text", text |-> <<"x">>,
                                   marks |-> <<[isNull |-> TRUE]>>]>>]>>]

\* A tree that has the hosted path prefix in a link target, in plain text and
\* in the body of a code block.
PathTextDoc ==
    [type |-> "doc",
     content |-> <<[type |-> "paragraph",
                    content |-> <<[type |-> "text", text |-> <<"home">>,
                                   marks |-> <<[type |-> "link",
                                                attrs |-> [href |-> <<"/wiki/spaces/", "DOC">>]]>>],
                                  [type |-> "text",
                                   text |-> <<"is", " ", "at", " ", "/wiki/spaces/", "DOC">>]>>],
                   [type |-> "codeBlock",
                    content |-> <<[type |-> "text",
                                   text |-> <<"curl", " ", "/wiki/spaces/", "DOC">>]>>]>>]

Docs == {LinkDoc, MediaDoc, BrokenDoc, PathTextDoc}

\* The serialized value of body.atlas_doc_format: the JSON text of a tree, or
\* text that is not JSON.
SerializedDocs == {[json |-> d] : d \in Docs} \cup {[garbled |-> TRUE]}

\* JSON.parse(adfBody.value) throws on text that is not JSON.
JsonParseThrows(value) == ~Has(value, "json")

JsonParse(value) == value.json

AtlasBody(value) ==
    [atlas_doc_format |-> [value |-> value, representation |-> "atlas_doc_format"]]

Ancestors == <<[id |-> "900"]>>

\* The payload of a page write as the publisher builds it.
PagePayloads ==
    {[title |-> <<"Page">>, version |-> 2, body |-> AtlasBody(v)] : v \in SerializedDocs}
    \cup {[title |-> <<"Page">>, version |-> 2, body |-> AtlasBody(v),
           ancestors |-> Ancestors] : v \in SerializedDocs}

JsonData(payload) == [kind |-> "json", json |-> payload]
FormData == [kind |-> "form", form |-> "png-bytes"]
NoData == [kind |-> "none"]

AttachmentPath == <<"api", "content", PageId, "child", "attachment">>

\* The requests the REST client hands to sendRequest.  The content type is
\* multipart/form-data exactly when data is a form (createOrUpdateAttachments).
Requests ==
    {[method |-> "PUT", url |-> AttachmentPath, data |-> FormData],
     [method |-> "put", url |-> Append(AttachmentPath, ""), data |-> FormData],
     [method |-> "POST", url |-> AttachmentPath, data |-> FormData]}
    \cup {[method |-> "PUT", url |-> <<"api", "content", PageId>>, data |-> JsonData(p)] :
            p \in PagePayloads}
    \cup {[method |-> "POST", url |-> <<"api", "content">>,
           data |-> JsonData([title |-> <<"Page">>, version |-> 1,
                              body |-> AtlasBody([json |-> LinkDoc]),
                              ancestors |-> Ancestors])]}
    \cup {[method |-> "PUT",
           url |-> <<"api", "content", PageId, "child", "attachment", "att1">>,
           data |-> JsonData([title |-> DiagramPng, version |-> 3])]}
    \cup {[method |-> "GET", url |-> AttachmentPath, data |-> NoData],
          [url |-> <<"api", "content", PageId>>, data |-> NoData]}

\* ----------------------------------------------------------- response values

\* Attachment descriptors and other result entries of response bodies.
Descriptors ==
    {[type |-> "attachment", id |-> "att1", title |-> DiagramPng,
      extensions |-> [fileId |-> "file1"]],
     [type |-> "attachment", id |-> "att2", title |-> NotesPdf,
      extensions |-> [fileId |-> "att2"], container |-> [id |-> PageId, type |-> "page"]],
     [type |-> "attachment", title |-> DiagramPng],
     [type |-> "attachment", id |-> "att3"],
     [type |-> "page", id |-> "456", title |-> <<"Home">>]}

\* The server keeps ids, and the titles of one page's attachments, unique.
UniqueResults(s) ==
    \A i, j \in 1..Len(s) :
        i # j => /\ Has(s[i], "id") /\ Has(s[j], "id") => s[i].id # s[j].id
                 /\ Has(s[i], "title") /\ Has(s[j], "title") => s[i].title # s[j].title

ResultSeqs == {s \in DistinctSeqs(Descriptors, MaxResults) : UniqueResults(s)}

\* The JSON object {}.
EmptyObject == << >>

\* Bodies of responses below 400: empty, or JSON (a results listing or one object).
EmptyBody == [kind |-> "empty"]
JsonBody(j) == [kind |-> "json", json |-> j]
SuccessBodies ==
    {EmptyBody} \cup {JsonBody([results |-> s]) : s \in ResultSeqs}
        \cup {JsonBody(d) : d \in Descriptors}

\* Bodies of error responses: any text.
SameFileName == "same file name"
DupPlain(f) ==
    <<"Cannot add a new attachment with ", SameFileName, " as an existing attachment",
      ":", " ">> \o f
DupJson(f) ==
    <<"{", "\"", "message", "\"", ":", "\"", "Cannot add a new attachment with ",
      SameFileName, " as an existing attachment", ":", " ">> \o f \o <<"\"", "}">>
TextBody(t) == [kind |-> "text", text |-> t]
ErrorBodies ==
    {EmptyBody, TextBody(<<"Not", " ", "Found">>), TextBody(<<"A file with the ", SameFileName>>)}
        \cup {TextBody(DupPlain(f)) : f \in FileNames}
        \cup {TextBody(DupJson(f)) : f \in FileNames}

NotFound == TextBody(<<"Not", " ", "Found">>)

\* A page that is not JSON, as a login form or a proxy in front of the server
\* answers, and an error page longer than any limit the code cuts text at.
LoginPage == TextBody(<<"<html>", "Log", " ", "in", "</html>">>)
LongText == "(a stack trace of several thousand characters)"
ErrorPage == TextBody(<<"<html>", LongText, "</html>">>)

\* What the server answers: a status and a body.
Responses ==
    {[status |-> 200, body |-> b] : b \in SuccessBodies \cup {LoginPage}}
        \cup {[status |-> 201, body |-> b] :
                 b \in {EmptyBody} \cup {JsonBody([results |-> <<d>>]) : d \in Descriptors}}
        \cup {[status |-> 400, body |-> b] : b \in ErrorBodies}
        \cup {[status |-> 500, body |-> b] : b \in {EmptyBody, NotFound, ErrorPage}}

NoResponse == [status |-> 0, body |-> [kind |-> "none"]]

\* response.text is empty or white space only.
IsBlank(body) == body.kind = "empty"

\* response.json parses response.text when it is read, and throws a
\* SyntaxError when the text is not JSON (the empty text included).
JsonThrows(response) == response.body.kind # "json"

\* response.text || "(empty response)"
ErrorBodyOf(response) ==
    IF response.body.kind = "text" THEN response.body.text ELSE <<"(empty response)">>

\* errorBody.includes("same file name")
IncludesSameFileName(errorBody) == SameFileName \in Range(errorBody)

\* errorBody.match(/same file name[^:]*:\s*(.+?)(?:\s*$|")/)?.[1]?.trim(),
\* << >> when there is no match.
ExtractFilename(errorBody) ==
    LET n == Len(errorBody)
        starts == {i \in 1..n : errorBody[i] = SameFileName}
    IN  IF starts = {} THEN << >>
        ELSE
        LET i == CHOOSE k \in starts : \A m \in starts : k <= m
            colons == {j \in (i + 1)..n : errorBody[j] = ":"}
        IN  IF colons = {} THEN << >>
            ELSE
            LET j == CHOOSE k \in colons : \A m \in colons : k <= m
                nonSpace == {k \in (j + 1)..n : ~IsSpace(errorBody[k])}
            IN  IF nonSpace = {} THEN << >>
                ELSE
                LET k == CHOOSE a \in nonSpace : \A b \in nonSpace : a <= b
                    \* the capture ends before a quote or before trailing white space
                    ends == {e \in k..n :
                                \/ e = n
                                \/ errorBody[e + 1] = "\""
                                \/ \A b \in (e + 1)..n : IsSpace(errorBody[b])}
                    e == CHOOSE a \in ends : \A b \in ends : a <= b
                IN  IF \E b \in k..e : errorBody[b] = "\n" THEN << >>
                    ELSE Trim(SubSeq(errorBody, k, e))

\* --------------------------------------------------- the outbound rewriting

\* Lines 152-156: a PUT under /api/content/ whose payload has body.atlas_doc_format.
IsContentUpdateWrite(req) ==
    /\ Verb(req) = "PUT" /\ Has(req, "method")
    /\ IsContentPath(req.url)
    /\ req.data.kind = "json"
    /\ Has(req.data.json, "body")
    /\ Has(req.data.json.body, "atlas_doc_format")

\* storageValue.replace(/\/wiki\/spaces\//g, "/spaces/")
ReplaceWikiSpaces(markup) ==
    [i \in 1..Len(markup) |-> IF markup[i] = "/wiki/spaces/" THEN "/spaces/" ELSE markup[i]]

\* Lines 179-184: the markup that replaces the tree.
StorageValue(adfJson, suffix) ==
    IF suffix = SelfHostedSuffix
    THEN ReplaceWikiSpaces(convertAdfToStorageFormat(adfJson))
    ELSE convertAdfToStorageFormat(adfJson)

\* The inner try block fails: JSON.parse or the codec throws.
ConversionFails(req) ==
    LET value == req.data.json.body.atlas_doc_format.value
    IN  JsonParseThrows(value) \/ convertThrows(JsonParse(value))

\* A slip that adds the storage representation beside the tree:
\* body: { ...requestConfig.data.body, storage: ... }
WithStorageBesideTree(payload, storageValue) ==
    [f \in DOMAIN payload \cup {"body"} |->
        IF f = "body"
        THEN [g \in DOMAIN payload.body \cup {"storage"} |->
                 IF g = "storage"
                 THEN [value |-> storageValue, representation |-> "storage"]
                 ELSE payload.body[g]]
        ELSE payload[f]]

\* Lines 185-193: { ...requestConfig.data, body: { storage: ... } }
WithStorageBody(payload, storageValue) ==
    [f \in DOMAIN payload \cup {"body"} |->
        IF f = "body"
        THEN [storage |-> [value |-> storageValue, representation |-> "storage"]]
        ELSE payload[f]]

\* A slip that assigns the payload before the conversion is known to succeed:
\* a failed conversion leaves an empty storage body behind.
SubstituteWriteEagerly(req, suffix) ==
    IF IsContentUpdateWrite(req)
    THEN [req EXCEPT !.data.json =
             WithStorageBody(@,
                 IF ConversionFails(req) THEN << >>
                 ELSE StorageValue(JsonParse(@.body.atlas_doc_format.value), suffix))]
    ELSE req

\* Step 1, lines 152-201: write substitution; a failed conversion is caught and
\* leaves requestConfig as it was.
SubstituteWrite(req, suffix) ==
    IF IsContentUpdateWrite(req) /\ ~ConversionFails(req)
    THEN [req EXCEPT !.data.json =
             WithStorageBody(@, StorageValue(JsonParse(@.body.atlas_doc_format.value), suffix))]
    ELSE req

\* A slip that strips the ancestors whatever the variant.
ShouldStripAncestorsOnAnyVariant(req, suffix) ==
    /\ Has(req, "method") /\ Verb(req) = "PUT"
    /\ IsPagePath(req.url)
    /\ req.data.kind = "json"
    /\ Has(req.data.json, "ancestors")

\* Lines 206-211.
ShouldStripAncestors(req, suffix) ==
    /\ suffix = SelfHostedSuffix
    /\ Has(req, "method") /\ Verb(req) = "PUT"
    /\ IsPagePath(req.url)
    /\ req.data.kind = "json"
    /\ Has(req.data.json, "ancestors")

Without(r, f) == [g \in DOMAIN r \ {f} |-> r[g]]

\* Step 2, lines 206-214: delete requestConfig.data.ancestors.
StripAncestors(req, suffix) ==
    IF ShouldStripAncestors(req, suffix)
    THEN [req EXCEPT !.data.json = Without(@, "ancestors")]
    ELSE req

\* A slip that rewrites the method whatever the variant.
ShouldRewriteOnAnyVariant(req, suffix) ==
    /\ Has(req, "method") /\ Verb(req) = "PUT"
    /\ IsAttachmentUploadPath(req.url)

\* Lines 221-225.
ShouldRewriteAttachmentPut(req, suffix) ==
    /\ suffix = SelfHostedSuffix
    /\ Has(req, "method") /\ Verb(req) = "PUT"
    /\ IsAttachmentUploadPath(req.url)

\* Step 3, lines 226-228: requestConfig.method = "POST".
RewriteMethod(req, suffix) ==
    IF ShouldRewriteAttachmentPut(req, suffix) THEN [req EXCEPT !.method = "POST"] ELSE req

\* requestConfig as it is when the request is built (line 266).
OutboundRewrite(req, suffix) ==
    RewriteMethod(StripAncestors(SubstituteWrite(req, suffix), suffix), suffix)

\* Lines 246-256 and 266-295: what goes on the wire.  body is
\* JSON.stringify(requestConfig.data), or the form's buffer.
WireRequest(req, suffix) ==
    [method |-> Verb(req),
     url |-> [suffix |-> suffix, path |-> req.url, query |-> ""],
     body |-> req.data]

\* Lines 402-416: the listing of the parent's attachments.
ListRequest(pageId, suffix) ==
    [method |-> "GET",
     url |-> [suffix |-> suffix,
              path |-> <<"api", "content", pageId, "child", "attachment">>,
              query |-> "limit=200"],
     body |-> NoData]

\* A slip that retries against the create endpoint again.
RetryRequestToCreateEndpoint(pageId, attachmentId, body, suffix) ==
    [method |-> "POST",
     url |-> [suffix |-> suffix,
              path |-> <<"api", "content", pageId, "child", "attachment">>,
              query |-> ""],
     body |-> body]

\* Lines 433-441: the retry against the existing attachment's data endpoint.
RetryRequest(pageId, attachmentId, body, suffix) ==
    [method |-> "POST",
     url |-> [suffix |-> suffix,
              path |-> <<"api", "content", pageId, "child", "attachment", attachmentId, "data">>,
              query |-> ""],
     body |-> body]

\* ------------------------------------------------------ the inbound handling

\* Lines 473-476 and 446-448: the parsed body, {} for a blank one.
ResponseData(response) == IF IsBlank(response.body) THEN EmptyObject ELSE response.body.json

\* Line 452: a single result is wrapped in a results array.
WrapResults(retryData) ==
    IF Has(retryData, "results") THEN retryData ELSE [results |-> <<retryData>>]

\* Lines 357-370: a result without a container gets the parent page's.
PolyfillContainer(respData, url) ==
    IF MentionsAttachment(url) /\ HasPageIdMatch(url) /\ Has(respData, "results")
    THEN [respData EXCEPT !.results =
             [i \in 1..Len(@) |->
                 IF Has(@[i], "container") THEN @[i]
                 ELSE [f \in DOMAIN @[i] \cup {"container"} |->
                          IF f = "container" THEN [id |-> PageIdOf(url), type |-> "page"]
                          ELSE @[i][f]]]]
    ELSE respData

\* A slip that forgets the alternate file id.
CacheEntriesWithoutFileId(r) ==
    IF Get(r, "type", "") = "attachment" /\ Has(r, "id") /\ Has(r, "title")
    THEN (r.id :> r.title)
    ELSE << >>

\* A slip that also keys the title by the container's id.
CacheEntriesWithContainer(r) ==
    IF Get(r, "type", "") = "attachment" /\ Has(r, "id") /\ Has(r, "title")
    THEN IF Has(r, "container")
         THEN (r.container.id :> r.title) @@ (r.id :> r.title)
         ELSE (r.id :> r.title)
    ELSE << >>

\* Lines 374-378: what one result adds to the cache.
CacheEntriesOf(r) ==
    IF Get(r, "type", "") = "attachment" /\ Has(r, "id") /\ Has(r, "title")
    THEN IF Has(r, "extensions") /\ Has(r.extensions, "fileId") /\ r.extensions.fileId # r.id
         THEN (r.extensions.fileId :> r.title) @@ (r.id :> r.title)
         ELSE (r.id :> r.title)
    ELSE << >>

\* Lines 372-381: the for loop over respData.results; a later set overwrites.
RECURSIVE CacheAfter(_, _)
CacheAfter(map, results) ==
    IF results = << >> THEN map
    ELSE CacheAfter(CacheEntriesOf(Head(results)) @@ map, Tail(results))

UpdateCache(map, respData) ==
    IF Has(respData, "results") THEN CacheAfter(map, respData.results) ELSE map

\* Lines 467-470: new HTTPError(`Received a ${status}: ${errorBody.substring(0, 200)}`,
\* { status, data: response.text }).
MessageLimit == 200

HTTPError(response) ==
    [name |-> "HTTPError",
     message |-> [status |-> response.status, text |-> ErrorBodyOf(response),
                  limit |-> MessageLimit],
     response |-> [status |-> response.status, data |-> response.body]]

\* A slip that reports the response received last instead of the first one.
LatestError(call) ==
    HTTPError(IF call.retryResponse.status # 0 THEN call.retryResponse
              ELSE IF call.listResponse.status # 0 THEN call.listResponse
              ELSE call.response)

\* Lines 466-470 after a lookup or retry that did not recover: `response` is
\* still the first response.
OriginalError(call) == HTTPError(call.response)

\* What the request primitive throws when the request cannot be made.
TransportError(stage) ==
    [name |-> "Error",
     message |-> [status |-> 0, text |-> <<"net::ERR_FAILED">>, limit |-> 0],
     stage |-> stage]

\* What reading response.json throws on a body that is not JSON.
ParseError(stage) ==
    [name |-> "SyntaxError",
     message |-> [status |-> 0, text |-> <<"Unexpected token">>, limit |-> 0],
     stage |-> stage]

\* main.ts 94-106, the onError middleware: an error that carries response data
\* gets that data as its message.
onError(e) ==
    IF Has(e, "response")
    THEN [e EXCEPT !.message = [status |-> 0,
                                text |-> IF e.response.data.kind = "text"
                                         THEN e.response.data.text ELSE << >>,
                                limit |-> 0]]
    ELSE e

\* ------------------------------------------------------------------ state

CallIds == {1}

VARIABLES
    urlSuffix,          \* this.urlSuffix
    attachmentFileMap,  \* this.attachmentFileMap
    calls,              \* the sendRequest calls in progress, by call
    adf,                \* the tree handed to convertAdfToStorageFormat
    outputs,            \* what the conversions of adf returned, in order
    plugin              \* the ConfluencePlugin object and its publishes in progress

vars == <<urlSuffix, attachmentFileMap, calls, adf, outputs, plugin>>

IdleCall ==
    [pc |-> "Idle",
     original |-> [data |-> NoData],
     requestConfig |-> [data |-> NoData],
     callback |-> FALSE,
     kept |-> << >>,
     isRewrittenAttachmentPost |-> FALSE,
     sent |-> << >>,
     response |-> NoResponse,
     listResponse |-> NoResponse,
     retryResponse |-> NoResponse,
     visited |-> << >>,
     onResponseCalls |-> 0,
     onErrorCalls |-> 0,
     outcome |-> [kind |-> "pending"]]

\* main.ts: this.settings, as far as the publish triggers and doPublish read it.
Settings ==
    {[folderToPublish |-> f, isDataCenter |-> d] : f \in {"", "notes"}, d \in BOOLEAN}

DefaultSettings == [folderToPublish |-> "notes", isDataCenter |-> FALSE]

\* main.ts 45 and 225-227: the plugin after onload.  running holds the
\* publishes whose doPublish has not settled; trigger is what the last trigger
\* did; adrFiles and modal are what the publisher returned and the modal
\* showed when the last publish settled.
IdlePlugin(settings) ==
    [isSyncing |-> FALSE,
     settings |-> settings,
     running |-> << >>,
     trigger |-> [command |-> "none", outcome |-> "none"],
     adrFiles |-> << >>,
     modal |-> << >>]

Init ==
    /\ urlSuffix \in UrlSuffixes
    /\ attachmentFileMap = << >>
    /\ calls = [c \in CallIds |-> IdleCall]
    /\ adf = [type |-> "doc"]
    /\ outputs = << >>
    /\ plugin = IdlePlugin(DefaultSettings)

\* Lines 146-309: the outbound path up to the await of requestUrl.
SendRequest(c, req, cb) ==
    /\ calls[c].pc = "Idle"
    /\ LET rewritten == OutboundRewrite(req, urlSuffix)
       IN  calls' = [calls EXCEPT ![c] =
               [@ EXCEPT !.pc = "Sending",
                         !.original = req,
                         !.requestConfig = rewritten,
                         !.callback = cb,
                         !.kept = << >>,
                         !.isRewrittenAttachmentPost = ShouldRewriteAttachmentPut(req, urlSuffix),
                         !.sent = <<WireRequest(rewritten, urlSuffix)>>,
                         !.visited = <<"Sending">>]]
    /\ UNCHANGED <<urlSuffix, attachmentFileMap, adf, outputs, plugin>>

\* Lines 356-383, processAndReturn, ending the call with a result.
ProcessAndReturn(call, respData) ==
    LET data == PolyfillContainer(respData, call.requestConfig.url)
    IN  [call EXCEPT !.pc = "Done",
                     !.visited = Append(@, "Done"),
                     !.onResponseCalls = @ + 1,
                     !.outcome = [kind |-> "result",
                                  via |-> IF call.callback THEN "callback" ELSE "return",
                                  data |-> data]]

\* A slip that hands what failed to onResponse on its way to onError.
FailThroughOnResponse(call, e) ==
    [call EXCEPT !.pc = "Failed",
                 !.visited = Append(@, "Failed"),
                 !.onResponseCalls = @ + 1,
                 !.onErrorCalls = @ + 1,
                 !.outcome = [kind |-> "error",
                              via |-> IF call.callback THEN "callback" ELSE "throw",
                              error |-> onError(e)]]

\* Lines 480-510, the catch block, ending the call with an error.
Fail(call, e) ==
    [call EXCEPT !.pc = "Failed",
                 !.visited = Append(@, "Failed"),
                 !.onErrorCalls = @ + 1,
                 !.outcome = [kind |-> "error",
                              via |-> IF call.callback THEN "callback" ELSE "throw",
                              error |-> onError(e)]]

\* A slip that forgets to test whether the method was rewritten.
StartsLookupOnAnyDuplicate(call, response) ==
    /\ response.status >= 400
    /\ IncludesSameFileName(ErrorBodyOf(response))
    /\ HasPageIdMatch(call.requestConfig.url)

\* A slip that keeps the flag on the adapter, where every call in progress
\* reads what the last one wrote.
StartsLookupWithSharedFlag(call, response) ==
    /\ response.status >= 400
    /\ \E c \in DOMAIN calls : calls[c].isRewrittenAttachmentPost
    /\ IncludesSameFileName(ErrorBodyOf(response))
    /\ HasPageIdMatch(call.requestConfig.url)

\* Lines 392-397: the first response starts the lookup.
StartsLookup(call, response) ==
    /\ response.status >= 400
    /\ call.isRewrittenAttachmentPost
    /\ IncludesSameFileName(ErrorBodyOf(response))
    /\ HasPageIdMatch(call.requestConfig.url)

\* Lines 309-416 and 466-478: the first response arrives.
ReceiveResponse(c, response) ==
    /\ calls[c].pc = "Sending"
    /\ LET call == [calls[c] EXCEPT !.response = response]
       IN  IF response.status >= 400
           THEN /\ calls' = [calls EXCEPT ![c] =
                       IF StartsLookup(call, response)
                       THEN [call EXCEPT
                                !.pc = "LookingUpExisting",
                                !.visited = Append(@, "LookingUpExisting"),
                                !.sent = Append(@, ListRequest(PageIdOf(call.requestConfig.url),
                                                               urlSuffix))]
                       ELSE Fail(call, HTTPError(response))]
                /\ UNCHANGED attachmentFileMap
           ELSE IF ~IsBlank(response.body) /\ JsonThrows(response)
           THEN /\ calls' = [calls EXCEPT ![c] = Fail(call, ParseError("Sending"))]
                /\ UNCHANGED attachmentFileMap
           ELSE /\ calls' = [calls EXCEPT ![c] = ProcessAndReturn(call, ResponseData(response))]
                /\ attachmentFileMap' =
                       UpdateCache(attachmentFileMap,
                                   PolyfillContainer(ResponseData(response),
                                                     call.requestConfig.url))
    /\ UNCHANGED <<urlSuffix, adf, outputs, plugin>>

\* Lines 420-429: the existing attachment the retry targets; << >> when none.
FindExisting(errorBody, listResponse) ==
    LET existingAttachments == Get(ResponseData(listResponse), "results", << >>)
        targetFilename == ExtractFilename(errorBody)
        hits == {i \in 1..Len(existingAttachments) :
                    /\ Has(existingAttachments[i], "title")
                    /\ existingAttachments[i].title = targetFilename}
    IN  IF targetFilename = << >> \/ hits = {} THEN << >>
        ELSE existingAttachments[CHOOSE i \in hits : \A j \in hits : i <= j]

\* Lines 418-429: the listing is usable and names an existing attachment with an id.
StartsRetry(call, listResponse) ==
    /\ listResponse.status = 200
    /\ ~JsonThrows(listResponse)
    /\ Has(ResponseData(listResponse), "results")
    /\ Has(FindExisting(ErrorBodyOf(call.response), listResponse), "id")

\* A slip that records the listing's entries in the cache.
ReceiveListResponseCaching(c, listResponse) ==
    /\ calls[c].pc = "LookingUpExisting"
    /\ LET call == [calls[c] EXCEPT !.listResponse = listResponse]
       IN  calls' = [calls EXCEPT ![c] =
               IF StartsRetry(call, listResponse)
               THEN [call EXCEPT
                        !.pc = "Retrying",
                        !.visited = Append(@, "Retrying"),
                        !.sent = Append(@,
                            RetryRequest(PageIdOf(call.requestConfig.url),
                                         FindExisting(ErrorBodyOf(call.response), listResponse).id,
                                         call.sent[1].body, urlSuffix))]
               ELSE IF listResponse.status = 200 /\ JsonThrows(listResponse)
               THEN Fail(call, ParseError("LookingUpExisting"))
               ELSE Fail(call, OriginalError(call))]
    /\ attachmentFileMap' =
           IF listResponse.status = 200 /\ ~JsonThrows(listResponse)
           THEN UpdateCache(attachmentFileMap, ResponseData(listResponse))
           ELSE attachmentFileMap
    /\ UNCHANGED <<urlSuffix, adf, outputs, plugin>>

\* Lines 418-441 and 458-470: the listing arrives.
ReceiveListResponse(c, listResponse) ==
    /\ calls[c].pc = "LookingUpExisting"
    /\ LET call == [calls[c] EXCEPT !.listResponse = listResponse]
       IN  calls' = [calls EXCEPT ![c] =
               IF StartsRetry(call, listResponse)
               THEN [call EXCEPT
                        !.pc = "Retrying",
                        !.visited = Append(@, "Retrying"),
                        !.sent = Append(@,
                            RetryRequest(PageIdOf(call.requestConfig.url),
                                         FindExisting(ErrorBodyOf(call.response), listResponse).id,
                                         call.sent[1].body, urlSuffix))]
               ELSE IF listResponse.status = 200 /\ JsonThrows(listResponse)
               THEN Fail(call, ParseError("LookingUpExisting"))
               ELSE Fail(call, OriginalError(call))]
    /\ UNCHANGED <<urlSuffix, attachmentFileMap, adf, outputs, plugin>>

\* A slip that looks the attachment up again when the retry fails.
ReceiveRetryResponseLookingUpAgain(c, retryResponse) ==
    /\ calls[c].pc = "Retrying"
    /\ LET call == [calls[c] EXCEPT !.retryResponse = retryResponse]
       IN  IF retryResponse.status < 400 /\ ~IsBlank(retryResponse.body)
              /\ JsonThrows(retryResponse)
           THEN /\ calls' = [calls EXCEPT ![c] = Fail(call, ParseError("Retrying"))]
                /\ UNCHANGED attachmentFileMap
           ELSE IF retryResponse.status < 400
           THEN /\ calls' = [calls EXCEPT ![c] =
                       ProcessAndReturn(call, WrapResults(ResponseData(retryResponse)))]
                /\ attachmentFileMap' =
                       UpdateCache(attachmentFileMap,
                                   PolyfillContainer(WrapResults(ResponseData(retryResponse)),
                                                     call.requestConfig.url))
           ELSE /\ calls' = [calls EXCEPT ![c] =
                       IF Len(call.sent) < 5
                       THEN [call EXCEPT
                                !.pc = "LookingUpExisting",
                                !.visited = Append(@, "LookingUpExisting"),
                                !.sent = Append(@, ListRequest(PageIdOf(call.requestConfig.url),
                                                               urlSuffix))]
                       ELSE Fail(call, OriginalError(call))]
                /\ UNCHANGED attachmentFileMap
    /\ UNCHANGED <<urlSuffix, adf, outputs, plugin>>

\* Lines 443-457 and 466-470: the retry's response arrives.
ReceiveRetryResponse(c, retryResponse) ==
    /\ calls[c].pc = "Retrying"
    /\ LET call == [calls[c] EXCEPT !.retryResponse = retryResponse]
       IN  IF retryResponse.status < 400 /\ ~IsBlank(retryResponse.body)
              /\ JsonThrows(retryResponse)
           THEN /\ calls' = [calls EXCEPT ![c] = Fail(call, ParseError("Retrying"))]
                /\ UNCHANGED attachmentFileMap
           ELSE IF retryResponse.status < 400
           THEN /\ calls' = [calls EXCEPT ![c] =
                       ProcessAndReturn(call, WrapResults(ResponseData(retryResponse)))]
                /\ attachmentFileMap' =
                       UpdateCache(attachmentFileMap,
                                   PolyfillContainer(WrapResults(ResponseData(retryResponse)),
                                                     call.requestConfig.url))
           ELSE /\ calls' = [calls EXCEPT ![c] = Fail(call, OriginalError(call))]
                /\ UNCHANGED attachmentFileMap
    /\ UNCHANGED <<urlSuffix, adf, outputs, plugin>>

\* A slip that swallows what requestUrl threw and delivers an empty result.
RequestThrowsSwallowed(c) ==
    /\ calls[c].pc \in {"Sending", "LookingUpExisting", "Retrying"}
    /\ calls' = [calls EXCEPT ![c] = ProcessAndReturn(@, EmptyObject)]
    /\ UNCHANGED <<urlSuffix, attachmentFileMap, adf, outputs, plugin>>

\* requestUrl throws (lines 309, 407, 434): the catch block delivers what it threw.
RequestThrows(c) ==
    /\ calls[c].pc \in {"Sending", "LookingUpExisting", "Retrying"}
    /\ calls' = [calls EXCEPT ![c] = Fail(@, TransportError(calls[c].pc))]
    /\ UNCHANGED <<urlSuffix, attachmentFileMap, adf, outputs, plugin>>

\* The caller has the call's outcome; the adapter is ready for the next call.
Return(c) ==
    /\ calls[c].pc \in {"Done", "Failed"}
    /\ calls' = [calls EXCEPT ![c] = IdleCall]
    /\ UNCHANGED <<urlSuffix, attachmentFileMap, adf, outputs, plugin>>

Next ==
    \E c \in CallIds :
        \/ \E req \in Requests, cb \in BOOLEAN : SendRequest(c, req, cb)
        \/ \E response \in Responses : ReceiveResponse(c, response)
        \/ \E response \in Responses : ReceiveListResponse(c, response)
        \/ \E response \in Responses : ReceiveRetryResponse(c, response)
        \/ RequestThrows(c)
        \/ Return(c)

Spec == Init /\ [][Next]_vars

\* The request the call waits for settles: requestUrl returns or throws.
NetworkReturns(c) ==
    \/ \E response \in Responses : ReceiveResponse(c, response)
    \/ \E response \in Responses : ReceiveListResponse(c, response)
    \/ \E response \in Responses : ReceiveRetryResponse(c, response)
    \/ RequestThrows(c)

\* Every network call returns.
FairSpec == Spec /\ \A c \in CallIds : WF_vars(NetworkReturns(c))

\* The caller passes the request object of its last call again.  The object is
\* as that call left it: the assignments of lines 185, 213 and 227 write to the
\* caller's object.  kept stays in the call, so that the call is known to use
\* an object again.
SendRequestAgain(c, cb) ==
    /\ calls[c].pc = "Idle"
    /\ calls[c].kept # << >>
    /\ LET req == calls[c].kept[1].object
           rewritten == OutboundRewrite(req, urlSuffix)
       IN  calls' = [calls EXCEPT ![c] =
               [@ EXCEPT !.pc = "Sending",
                         !.original = req,
                         !.requestConfig = rewritten,
                         !.callback = cb,
                         !.isRewrittenAttachmentPost = ShouldRewriteAttachmentPut(req, urlSuffix),
                         !.sent = <<WireRequest(rewritten, urlSuffix)>>,
                         !.visited = <<"Sending">>]]
    /\ UNCHANGED <<urlSuffix, attachmentFileMap, adf, outputs, plugin>>

\* The caller has the call's outcome and keeps its request object for the
\* next call: asked is the object as the caller first passed it, object is
\* the object as the call left it.
ReturnKeeping(c) ==
    /\ calls[c].pc \in {"Done", "Failed"}
    /\ calls' = [calls EXCEPT ![c] =
           [IdleCall EXCEPT !.kept =
               <<[asked |-> IF calls[c].kept = << >> THEN calls[c].original
                            ELSE calls[c].kept[1].asked,
                  object |-> calls[c].requestConfig]>>]]
    /\ UNCHANGED <<urlSuffix, attachmentFileMap, adf, outputs, plugin>>

\* One caller after the other on a long-lived adapter, each with a new request
\* object or with the one it passed before.
ReuseNext ==
    \E c \in CallIds :
        \/ \E req \in Requests, cb \in BOOLEAN : SendRequest(c, req, cb)
        \/ \E cb \in BOOLEAN : SendRequestAgain(c, cb)
        \/ \E response \in Responses : ReceiveResponse(c, response)
        \/ \E response \in Responses : ReceiveListResponse(c, response)
        \/ \E response \in Responses : ReceiveRetryResponse(c, response)
        \/ RequestThrows(c)
        \/ ReturnKeeping(c)

ReuseSpec == Init /\ [][ReuseNext]_vars

\* Two sendRequest calls in progress on one adapter, each with a request
\* object of its own; a call runs from one await of requestUrl to the next
\* (lines 309, 407, 434) without the other in between.
PairIds == {1, 2}

\* The requests to the attachment endpoint, and answers of each kind.
PairRequests == {req \in Requests : IsAttachmentUploadPath(req.url)}

PairResponses ==
    {[status |-> 200, body |-> EmptyBody],
     [status |-> 200,
      body |-> JsonBody([results |-> <<[type |-> "attachment", id |-> "att1",
                                        title |-> DiagramPng,
                                        extensions |-> [fileId |-> "file1"]]>>])],
     [status |-> 400, body |-> TextBody(DupPlain(DiagramPng))],
     [status |-> 500, body |-> NotFound]}

PairInit ==
    /\ urlSuffix \in UrlSuffixes
    /\ attachmentFileMap = << >>
    /\ calls = [c \in PairIds |-> IdleCall]
    /\ adf = [type |-> "doc"]
    /\ outputs = << >>
    /\ plugin = IdlePlugin(DefaultSettings)

PairNext ==
    \E c \in PairIds :
        \/ \E req \in PairRequests, cb \in BOOLEAN : SendRequest(c, req, cb)
        \/ \E response \in PairResponses : ReceiveResponse(c, response)
        \/ \E response \in PairResponses : ReceiveListResponse(c, response)
        \/ \E response \in PairResponses : ReceiveRetryResponse(c, response)
        \/ RequestThrows(c)
        \/ Return(c)

PairSpec == PairInit /\ [][PairNext]_vars

\* ------------------------------------------------------ the codec on its own

\* Longest marks sequence of a text node.
MaxMarks == 3
\* Most text leaves in a code block.
MaxCodeLeaves == 2
\* Largest colspan or rowspan of a table cell.
MaxSpan == 3
\* How often one tree is converted.
MaxConversions == 2

\* The sequences over S of length at most n.
RECURSIVE SeqsUpTo(_, _)
SeqsUpTo(S, n) ==
    IF n = 0 THEN {<< >>}
    ELSE LET shorter == SeqsUpTo(S, n - 1)
         IN  shorter \cup {Append(q, e) : q \in shorter, e \in S}

\* An object with property f set to one of the values, or without it.
OptField(f, values) == {<< >>} \cup {(f :> v) : v \in values}

Text(t) == [type |-> "text", text |-> t]
Para(children) == [type |-> "paragraph", content |-> children]
Doc(children) == [type |-> "doc", content |-> children]
ParaA == Para(<<Text(<<"a">>)>>)
ParaB == Para(<<Text(<<"b">>)>>)

\* Marks: known ones, one with an attribute, one of a type the codec does not know.
Marks ==
    {[type |-> "strong"], [type |-> "em"],
     [type |-> "subsup", attrs |-> [type |-> "sub"]],
     [type |-> "link", attrs |-> [href |-> <<"/wiki/spaces/", "DOC", "&", "\"">>]],
     [type |-> "glow"]}

PlainTexts == {<<"a", "&", "b">>, <<"<", "i", ">", "\"">>}

MarkedDocs ==
    {Doc(<<Para(<<[type |-> "text", text |-> t, marks |-> ms]>>)>>) :
        t \in PlainTexts, ms \in SeqsUpTo(Marks, MaxMarks)}

\* Media nodes: attachment-addressed (type file) with or without a file name,
\* alt text and width, and external ones.
MediaAttrs ==
    {f @@ a @@ w @@ [type |-> "file", id |-> i, collection |-> "contentId-123"] :
        f \in OptField("__fileName", {DiagramPng}),
        a \in OptField("alt", {NotesPdf, <<"a", "\"", "b">>}),
        w \in OptField("width", {<<"300">>, <<"1", "\"", " ", "onload=x">>}),
        i \in {"att1", "file1"}}
    \cup {w @@ [type |-> "external", url |-> <<"http://x/?a", "&", "b">>] :
             w \in OptField("width", {<<"300">>})}

MediaNode(attrs) == [type |-> "media", attrs |-> attrs]

MediaDocs ==
    {Doc(<<ParaA, [type |-> "mediaSingle", content |-> <<MediaNode(a)>>], ParaB>>) :
        a \in MediaAttrs}

\* Code blocks: their leaves carry markup characters and the terminator of a
\* character-data block.
CodeTexts == {<<"a">>, <<"<", "b", "&", "\"">>, <<"x", "]]>", "<", "y">>}

CodeBlock(lang, texts) ==
    lang @@ [type |-> "codeBlock", content |-> [i \in 1..Len(texts) |-> Text(texts[i])]]

CodeDocs ==
    {Doc(<<CodeBlock(l, ts)>>) :
        l \in OptField("attrs", {[language |-> <<"js">>]}),
        ts \in SeqsUpTo(CodeTexts, MaxCodeLeaves)}

\* Table cells with every combination of colspan and rowspan.
CellAttrs ==
    {c @@ r : c \in OptField("colspan", 0..MaxSpan), r \in OptField("rowspan", 0..MaxSpan)}

Cell(type, attrs) == [type |-> type, attrs |-> attrs, content |-> <<ParaA>>]

CellDocs ==
    {Doc(<<[type |-> "table", attrs |-> [layout |-> <<"default">>],
            content |-> <<[type |-> "tableRow", content |-> <<Cell(t, a)>>]>>]>>) :
        t \in {"tableHeader", "tableCell"}, a \in CellAttrs}

\* Nodes of a type the codec does not know, and nodes without a type.
FutureBlock(children) == [type |-> "futureBlock", content |-> children]
Typeless(children) == [content |-> children]

UnknownDocs ==
    {Doc(<<FutureBlock(<<ParaA, ParaB>>)>>),
     Doc(<<ParaA, FutureBlock(<<FutureBlock(<<ParaB>>), ParaA>>)>>),
     Doc(<<[type |-> "bulletList",
            content |-> <<[type |-> "listItem", content |-> <<FutureBlock(<<ParaA, ParaB>>)>>]>>]>>),
     FutureBlock(<<ParaA, ParaB>>),
     Doc(<<Typeless(<<ParaA, ParaB>>)>>),
     Doc(<<ParaA, FutureBlock(<<Typeless(<<ParaB>>), ParaA>>)>>),
     Typeless(<<ParaA, ParaB>>)}

\* The remaining supported node types.
Emoji(attrs) == [type |-> "emoji", attrs |-> attrs]

OtherDocs ==
    {Doc(<<[type |-> "heading", attrs |-> [level |-> 2], content |-> <<Text(<<"a">>)>>],
           [type |-> "rule"],
           [type |-> "blockquote", content |-> <<ParaA>>]>>),
     Doc(<<[type |-> "orderedList",
            content |-> <<[type |-> "listItem",
                           content |-> <<Para(<<Text(<<"a">>), [type |-> "hardBreak"],
                                                Text(<<"b">>)>>)>>]>>]>>),
     Doc(<<[type |-> "panel", attrs |-> [panelType |-> <<"note", "&">>], content |-> <<ParaA>>]>>),
     Doc(<<[type |-> "expand", attrs |-> [title |-> <<"more", "<">>], content |-> <<ParaA>>]>>),
     Doc(<<[type |-> "nestedExpand", content |-> <<ParaB>>]>>),
     Doc(<<Para(<<[type |-> "status", attrs |-> [text |-> <<"done", "\"">>,
                                                  color |-> <<"green">>]]>>)>>),
     Doc(<<[type |-> "taskList",
            content |-> <<[type |-> "taskItem", attrs |-> [state |-> "DONE"],
                           content |-> <<Text(<<"a">>)>>],
                          [type |-> "taskItem", attrs |-> [state |-> "TODO"],
                           content |-> <<Text(<<"b">>)>>]>>]>>),
     Doc(<<Para(<<[type |-> "mention", attrs |-> [id |-> <<"u1", "&">>]]>>)>>),
     Doc(<<Para(<<[type |-> "inlineCard", attrs |-> [url |-> <<"http://x/?a", "&", "b">>]]>>)>>),
     Doc(<<[type |-> "mediaGroup", content |-> <<MediaNode([type |-> "file", id |-> "att1",
                                                            alt |-> DiagramPng])>>]>>)}
    \cup {Doc(<<Para(<<Text(<<"a">>), Emoji(e), Text(<<"b">>)>>)>>) :
             e \in {[text |-> <<":)">>], [shortName |-> <<":smile:">>],
                    [text |-> <<"<", "3">>], [text |-> <<"R", "&", "D">>], << >>}}

\* Sparse trees: nodes of every type with nothing but the type, alone and as
\* the child of a document or of a node of unknown type, with empty content,
\* and marked text nodes without text and marks without attributes.
NodeTypes ==
    {"doc", "paragraph", "heading", "text", "hardBreak", "rule", "bulletList",
     "orderedList", "listItem", "blockquote", "codeBlock", "table", "tableRow",
     "tableHeader", "tableCell", "mediaSingle", "mediaGroup", "media", "inlineCard",
     "emoji", "panel", "expand", "nestedExpand", "status", "taskList", "taskItem",
     "mention", "futureBlock"}

SparseDocs ==
    {[type |-> t] : t \in NodeTypes}
        \cup {Doc(<<[type |-> t]>>) : t \in NodeTypes}
        \cup {FutureBlock(<<[type |-> t], [type |-> t, content |-> << >>]>>) : t \in NodeTypes}
        \cup {Doc(<<Para(<<[type |-> "text", marks |-> ms]>>)>>) :
                 ms \in {<< >>, <<[type |-> "link"], [type |-> "textColor"]>>,
                         <<[type |-> "subsup"], [type |-> "glow"]>>}}

Trees ==
    MarkedDocs \cup MediaDocs \cup CodeDocs \cup CellDocs \cup UnknownDocs \cup OtherDocs
        \cup SparseDocs

\* Cache contents when the codec is called.
Caches == {<< >>, ("att1" :> DiagramPng) @@ ("file1" :> DiagramPng)}

\* A slip that reverses node.marks in place: node.marks.reverse().
MarksReversedInPlace(marks) == Reverse(marks)

\* convertText, line 30: the loop runs over a reversed copy, [...node.marks];
\* node.marks itself is left as it was.
MarksAfterConvertText(marks) == marks

\* The tree as the codec leaves it: the nodes convertNode visits, none of
\* whose properties it writes.
RECURSIVE TreeAfterConversion(_)
TreeAfterConversion(node) ==
    IF Get(node, "type", "") \in {"", "codeBlock"} THEN node
    ELSE [f \in DOMAIN node |->
             IF f = "marks" /\ node.type = "text" THEN MarksAfterConvertText(node.marks)
             ELSE IF f = "content"
                  THEN [i \in 1..Len(node.content) |-> TreeAfterConversion(node.content[i])]
                  ELSE node[f]]

CodecInit ==
    /\ urlSuffix = HostedSuffix
    /\ attachmentFileMap \in Caches
    /\ calls = [c \in CallIds |-> IdleCall]
    /\ adf \in Trees
    /\ outputs = << >>
    /\ plugin = IdlePlugin(DefaultSettings)

\* MyBaseClient.ts line 179: convertAdfToStorageFormat(adfJson, this.attachmentFileMap).
\* The function has one parameter; the cache handed to it is not read.
Convert ==
    /\ Len(outputs) < MaxConversions
    /\ outputs' = Append(outputs, convertAdfToStorageFormat(adf))
    /\ adf' = TreeAfterConversion(adf)
    /\ UNCHANGED <<urlSuffix, attachmentFileMap, calls, plugin>>

CodecNext == Convert

CodecSpec == CodecInit /\ [][CodecNext]_vars

\* ------------------------------------------------------------- the plugin

\* Most per-document results one publish returns.
MaxDocs == 3

\* The vault path of the i-th document of a publish.
DocPath(i) == "notes/" \o ToString(i) \o ".md"

Paths == {DocPath(i) : i \in 1..MaxDocs}

PageUrl == <<"https://wiki.example", "/wiki/spaces/", "DOC", "/pages/1">>

\* What the publisher returns for one document: a successful upload, or a
\* failure with a reason, with an empty reason or with none.
Uploaded(path) ==
    [node |-> [file |-> [absoluteFilePath |-> path, pageUrl |-> PageUrl]],
     successfulUploadResult |->
         [adfFile |-> [absoluteFilePath |-> path, pageUrl |-> PageUrl],
          contentResult |-> "updated"]]

NotUploaded(path, reason) ==
    reason @@ [node |-> [file |-> [absoluteFilePath |-> path]]]

FileResults(path) ==
    {Uploaded(path)}
        \cup {NotUploaded(path, r) :
                 r \in OptField("reason", {"Received a 500: page was last updated by another user", ""})}

\* The adrFiles a publish resolves with: one result for each document.
RECURSIVE ResultsOfLength(_)
ResultsOfLength(n) ==
    IF n = 0 THEN {<< >>}
    ELSE {Append(results, r) : results \in ResultsOfLength(n - 1), r \in FileResults(DocPath(n))}

PublishResults == UNION {ResultsOfLength(n) : n \in 0..MaxDocs}

\* What a publish rejects with: an Error, or an HTTPError with its response.
PublishErrors ==
    {[message |-> <<"vault is not readable">>],
     [message |-> <<"Received a 401">>,
      response |-> [status |-> 401, data |-> <<"Unauthorized">>]]}

\* String.prototype.replace(from, to) with a string pattern: the first
\* occurrence only.
ReplaceFirst(text, from, to) ==
    LET hits == {i \in 1..Len(text) : text[i] = from}
    IN  IF hits = {} THEN text
        ELSE [i \in 1..Len(text) |->
                 IF i = (CHOOSE k \in hits : \A m \in hits : k <= m) THEN to ELSE text[i]]

\* main.ts 175-185: on the self-hosted variant the page URLs of a result are
\* rewritten.
WithDataCenterUrls(result) ==
    LET first == IF Has(result, "successfulUploadResult")
                 THEN [result EXCEPT !.successfulUploadResult.adfFile.pageUrl =
                          ReplaceFirst(@, "/wiki/spaces/", "/spaces/")]
                 ELSE result
    IN  IF Has(first.node.file, "pageUrl")
        THEN [first EXCEPT !.node.file.pageUrl = ReplaceFirst(@, "/wiki/spaces/", "/spaces/")]
        ELSE first

\* main.ts 203: element.reason ?? "No Reason Provided"
ReasonOf(element) == Get(element, "reason", "No Reason Provided")

\* main.ts 195-218: the forEach over adrFiles, pushing to one of the two lists.
RECURSIVE ForEachResult(_, _)
ForEachResult(adrFiles, returnVal) ==
    IF adrFiles = << >> THEN returnVal
    ELSE LET element == Head(adrFiles)
         IN  ForEachResult(Tail(adrFiles),
                 IF Has(element, "successfulUploadResult")
                 THEN [returnVal EXCEPT !.filesUploadResult =
                          Append(@, element.successfulUploadResult)]
                 ELSE [returnVal EXCEPT !.failedFiles =
                          Append(@, [fileName |-> element.node.file.absoluteFilePath,
                                     reason |-> ReasonOf(element)])])

\* main.ts 158-223 after publisher.publish resolved; errorMessage: null is the
\* absent field.
doPublish(adrFiles, settings) ==
    LET results == IF settings.isDataCenter
                   THEN [i \in 1..Len(adrFiles) |-> WithDataCenterUrls(adrFiles[i])]
                   ELSE adrFiles
    IN  ForEachResult(results, [failedFiles |-> << >>, filesUploadResult |-> << >>])

\* main.ts 516-536: extractErrorMessage for an Error.
extractErrorMessage(error) ==
    IF Has(error, "response")
    THEN error.message
             \o <<"\n\nAPI Response (status ", ToString(error.response.status), "):\n">>
             \o error.response.data
    ELSE error.message

\* The trigger passed its checks: isSyncing is set and doPublish is called.
\* What the publish before it returned and showed is forgotten.
StartPublish(command, publishFilter) ==
    [plugin EXCEPT !.isSyncing = TRUE,
                   !.running = Append(@, [command |-> command, publishFilter |-> publishFilter]),
                   !.trigger = [command |-> command, outcome |-> "started"],
                   !.adrFiles = << >>,
                   !.modal = << >>]

\* The trigger returned without calling doPublish.
ReturnEarly(command, outcome) ==
    [plugin EXCEPT !.trigger = [command |-> command, outcome |-> outcome]]

\* A slip that leaves out the ribbon's test of isSyncing.
ClickRibbonUnguarded ==
    /\ plugin' =
           IF plugin.settings.folderToPublish = ""
           THEN ReturnEarly("ribbon", "Please configure 'Folder to Publish'")
           ELSE StartPublish("ribbon", "")
    /\ UNCHANGED <<urlSuffix, attachmentFileMap, calls, adf, outputs>>

\* main.ts 228-241: the ribbon icon is clicked.
ClickRibbon ==
    /\ plugin' =
           IF plugin.isSyncing THEN ReturnEarly("ribbon", "Syncing already on going")
           ELSE IF plugin.settings.folderToPublish = ""
           THEN ReturnEarly("ribbon", "Please configure 'Folder to Publish'")
           ELSE StartPublish("ribbon", "")
    /\ UNCHANGED <<urlSuffix, attachmentFileMap, calls, adf, outputs>>

\* main.ts 288-320: the checkCallback of publish-current; currentPath is what
\* activeLeafPath returns, "" when there is no active markdown file.
PublishCurrent(checking, currentPath) ==
    /\ plugin' =
           IF plugin.isSyncing THEN ReturnEarly("publish-current", "ignored")
           ELSE IF checking THEN ReturnEarly("publish-current", "checked")
           ELSE IF currentPath = ""
           THEN ReturnEarly("publish-current", "No active markdown file to publish")
           ELSE StartPublish("publish-current", currentPath)
    /\ UNCHANGED <<urlSuffix, attachmentFileMap, calls, adf, outputs>>

\* main.ts 326-357: the checkCallback of publish-all.
PublishAll(checking) ==
    /\ plugin' =
           IF plugin.isSyncing THEN ReturnEarly("publish-all", "ignored")
           ELSE IF checking THEN ReturnEarly("publish-all", "checked")
           ELSE IF plugin.settings.folderToPublish = ""
           THEN ReturnEarly("publish-all", "Please configure 'Folder to Publish'")
           ELSE StartPublish("publish-all", "")
    /\ UNCHANGED <<urlSuffix, attachmentFileMap, calls, adf, outputs>>

\* The publishes in progress without the i-th.
Settled(running, i) == SubSeq(running, 1, i - 1) \o SubSeq(running, i + 1, Len(running))

\* main.ts 171-222, 242-245 and 256-258 (298-302 and 313-315, 336-340 and
\* 351-353): publisher.publish resolves, doPublish returns the two lists, the
\* modal shows them and the finally block clears isSyncing.
PublishResolves(i, adrFiles) ==
    /\ i \in 1..Len(plugin.running)
    /\ plugin' = [plugin EXCEPT !.isSyncing = FALSE,
                                !.running = Settled(@, i),
                                !.adrFiles = adrFiles,
                                !.modal = doPublish(adrFiles, plugin.settings)]
    /\ UNCHANGED <<urlSuffix, attachmentFileMap, calls, adf, outputs>>

\* A slip that clears isSyncing on the success path only.
PublishRejectsLeavingFlag(i, error) ==
    /\ i \in 1..Len(plugin.running)
    /\ plugin' = [plugin EXCEPT !.running = Settled(@, i),
                                !.adrFiles = << >>,
                                !.modal = [errorMessage |-> extractErrorMessage(error),
                                           failedFiles |-> << >>,
                                           filesUploadResult |-> << >>]]
    /\ UNCHANGED <<urlSuffix, attachmentFileMap, calls, adf, outputs>>

\* main.ts 246-258 (303-315, 341-353): publisher.publish rejects, the modal
\* shows the error message and the finally block clears isSyncing.
PublishRejects(i, error) ==
    /\ i \in 1..Len(plugin.running)
    /\ plugin' = [plugin EXCEPT !.isSyncing = FALSE,
                                !.running = Settled(@, i),
                                !.adrFiles = << >>,
                                !.modal = [errorMessage |-> extractErrorMessage(error),
                                           failedFiles |-> << >>,
                                           filesUploadResult |-> << >>]]
    /\ UNCHANGED <<urlSuffix, attachmentFileMap, calls, adf, outputs>>

PluginInit ==
    /\ urlSuffix = HostedSuffix
    /\ attachmentFileMap = << >>
    /\ calls = [c \in CallIds |-> IdleCall]
    /\ adf = [type |-> "doc"]
    /\ outputs = << >>
    /\ plugin \in {IdlePlugin(settings) : settings \in Settings}

\* A publish in progress settles.
PublishSettles ==
    \E i \in 1..Len(plugin.running) :
        \/ \E adrFiles \in PublishResults : PublishResolves(i, adrFiles)
        \/ \E error \in PublishErrors : PublishRejects(i, error)

PluginNext ==
    \/ ClickRibbon
    \/ \E checking \in BOOLEAN, currentPath \in Paths \cup {""} :
           PublishCurrent(checking, currentPath)
    \/ \E checking \in BOOLEAN : PublishAll(checking)
    \/ \E i \in 1..Len(plugin.running), adrFiles \in PublishResults :
           PublishResolves(i, adrFiles)
    \/ \E i \in 1..Len(plugin.running), error \in PublishErrors : PublishRejects(i, error)

PluginSpec == PluginInit /\ [][PluginNext]_vars

\* publisher.publish settles: every publish started resolves or rejects.
FairPluginSpec == PluginSpec /\ WF_vars(PublishSettles)

\* ------------------------------------------------------------------ claims

InFlight(call) == call.pc # "Idle"
Ended(call) == call.pc \in {"Done", "Failed"}
SelfHosted == urlSuffix = SelfHostedSuffix
Hosted == urlSuffix = HostedSuffix

\* The path ends in /child/attachment (a trailing slash aside).
EndsInChildAttachment(url) ==
    LET n == IF Len(url) > 0 /\ url[Len(url)] = "" THEN Len(url) - 1 ELSE Len(url)
    IN  n >= 2 /\ url[n - 1] = "child" /\ url[n] = "attachment"

\* The caller asked for a create-or-update attachment upload: PUT /child/attachment.
IsPutUpload(req) ==
    Has(req, "method") /\ req.method \in {"PUT", "put"} /\ EndsInChildAttachment(req.url)

\* The first request went out as POST although the caller asked for PUT.
WasRewritten(call) == IsPutUpload(call.original) /\ call.sent[1].method = "POST"

\* The response is a duplicate-name error that names file f.
NamesDuplicate(response, f) ==
    /\ response.status >= 400
    /\ response.body.kind = "text"
    /\ response.body.text \in {DupPlain(f), DupJson(f)}

\* The response is a duplicate-name error.
IsDuplicateError(response) ==
    /\ response.status >= 400
    /\ response.body.kind = "text"
    /\ SameFileName \in Range(response.body.text)

\* The listing succeeded and holds an entry titled f with id i.
ListsExisting(listResponse, f, i) ==
    /\ listResponse.status = 200
    /\ listResponse.body.kind = "json"
    /\ Has(listResponse.body.json, "results")
    /\ \E k \in 1..Len(listResponse.body.json.results) :
           LET a == listResponse.body.json.results[k]
           IN  Has(a, "title") /\ a.title = f /\ Has(a, "id") /\ a.id = i

AttachmentIds == {d.id : d \in {e \in Descriptors : Has(e, "id")}}

\* The request was answered with a status below 400 and a body the adapter
\* can read: an empty one or JSON.
Succeeds(response) ==
    /\ response.status # 0 /\ response.status < 400
    /\ IsBlank(response.body) \/ ~JsonThrows(response)

\* The response was answered with a status below 400 and a body that is
\* neither empty nor JSON.
Unreadable(response) ==
    /\ response.status # 0 /\ response.status < 400
    /\ ~IsBlank(response.body) /\ JsonThrows(response)

\* The listing was answered with status 200 and a body that is not JSON.
UnreadableListing(listResponse) == listResponse.status = 200 /\ JsonThrows(listResponse)

\* C1: on the self-hosted variant, when a rewritten upload gets a duplicate-name
\* error naming F and the listing succeeds with an entry titled F with id I, the
\* call issues exactly one follow-up upload, a POST to
\* /api/content/{parent}/child/attachment/{I}/data with the original body, and
\* reports success when that request succeeds.
C1_RetryTargetsExisting ==
    \A c \in CallIds : \A f \in FileNames : \A i \in AttachmentIds :
        LET call == calls[c]
        IN  (/\ SelfHosted
             /\ InFlight(call)
             /\ WasRewritten(call)
             /\ NamesDuplicate(call.response, f)
             /\ ListsExisting(call.listResponse, f, i))
            => /\ Len(call.sent) = 3
               /\ call.sent[2].method = "GET"
               /\ call.sent[3] =
                      [method |-> "POST",
                       url |-> [suffix |-> SelfHostedSuffix,
                                path |-> <<"api", "content", PageId, "child", "attachment",
                                           i, "data">>,
                                query |-> ""],
                       body |-> call.original.data]
               /\ Succeeds(call.retryResponse)
                      => call.pc = "Done" /\ call.outcome.kind = "result"

\* C1 witness: a call that succeeded through the retry.
C1_Witness ==
    \E c \in CallIds :
        /\ calls[c].pc = "Done"
        /\ Len(calls[c].sent) = 3
        /\ NamesDuplicate(calls[c].response, DiagramPng)
        /\ ListsExisting(calls[c].listResponse, DiagramPng, "att1")
        /\ calls[c].retryResponse.status = 200
        /\ calls[c].outcome.kind = "result"

\* Every request of the call was answered with a response (none threw).
AllAnswered(call) ==
    Len(call.sent) = (IF call.response.status # 0 THEN 1 ELSE 0)
                   + (IF call.listResponse.status # 0 THEN 1 ELSE 0)
                   + (IF call.retryResponse.status # 0 THEN 1 ELSE 0)

\* The error delivered carries the first response's status code and body.
DeliversOriginalError(call) ==
    /\ call.outcome.kind = "error"
    /\ Has(call.outcome.error, "response")
    /\ call.outcome.error.response.status = call.response.status
    /\ call.outcome.error.response.data = call.response.body

\* C2 as stated: whenever the first response is a duplicate-name conflict and
\* the call ends in failure, the error delivered is the original error.
C2_AsStated ==
    \A c \in CallIds :
        (calls[c].pc = "Failed" /\ IsDuplicateError(calls[c].response))
            => DeliversOriginalError(calls[c])

\* C2 amended: whenever the first response is a duplicate-name conflict and the
\* call ends in failure after every request of the call was answered (existing
\* attachment not identified, listing answered with another status than 200 or
\* without results, retry answered with an error status), the error delivered
\* is the original error; when the request primitive throws during the listing
\* or the retry, or the body of a listing answered with 200 or of a retry
\* answered below 400 is not JSON, the error delivered is the exception thrown,
\* which carries no response.
C2_OriginalErrorWhenAnswered ==
    \A c \in CallIds :
        (calls[c].pc = "Failed" /\ IsDuplicateError(calls[c].response))
            => IF /\ AllAnswered(calls[c])
                  /\ ~UnreadableListing(calls[c].listResponse)
                  /\ ~Unreadable(calls[c].retryResponse)
               THEN DeliversOriginalError(calls[c])
               ELSE /\ calls[c].outcome.kind = "error"
                    /\ ~Has(calls[c].outcome.error, "response")
                    /\ calls[c].outcome.error.name =
                           IF AllAnswered(calls[c]) THEN "SyntaxError" ELSE "Error"

\* C2 witness: the retry was answered with an error status and the call failed.
C2_Witness ==
    \E c \in CallIds :
        /\ calls[c].pc = "Failed"
        /\ IsDuplicateError(calls[c].response)
        /\ calls[c].response.status = 400
        /\ calls[c].retryResponse.status = 500
        /\ DeliversOriginalError(calls[c])

\* C3: a lookup or retry request is issued only in a call whose method was
\* rewritten from PUT to POST for an attachment upload and whose response is an
\* error with a duplicate-name body; on the hosted variant, and for a request
\* whose method was not rewritten, a duplicate-name error fails the call with
\* that response's error and no extra request.
C3_ExtraRequestsOnlyWhenRewritten ==
    \A c \in CallIds :
        LET call == calls[c]
        IN  InFlight(call) =>
            /\ Len(call.sent) > 1
                   => SelfHosted /\ WasRewritten(call) /\ IsDuplicateError(call.response)
            /\ ((Hosted \/ ~WasRewritten(call)) /\ IsDuplicateError(call.response))
                   => /\ Len(call.sent) = 1
                      /\ call.pc = "Failed"
                      /\ DeliversOriginalError(call)

\* C3 witness: a PUT upload on the hosted variant failed with a duplicate-name
\* error after its single request.
C3_Witness ==
    \E c \in CallIds :
        /\ Hosted
        /\ IsPutUpload(calls[c].original)
        /\ IsDuplicateError(calls[c].response)
        /\ calls[c].pc = "Failed"
        /\ Len(calls[c].sent) = 1

\* The retry requests among the requests a call sent.
RetriesSent(call) ==
    {k \in 1..Len(call.sent) :
        LET path == call.sent[k].url.path IN path[Len(path)] = "data"}

\* The listing requests the adapter itself made.
ListingsSent(call) == {k \in 2..Len(call.sent) : call.sent[k].method = "GET"}

CallIsBounded(call) ==
    /\ Len(call.sent) <= 3
    /\ Cardinality(RetriesSent(call)) <= 1
    /\ Cardinality(ListingsSent(call)) <= 1
    /\ NoRepeat(call.visited)
    /\ Ended(call) => call.visited[Len(call.visited)] \in {"Done", "Failed"}

\* C4: provided each network call returns, every sendRequest call ends in Done
\* or Failed after at most three network requests (the initial send, at most one
\* listing, at most one retry), and no state of the machine is entered twice.
C4_BoundedTermination ==
    /\ [](\A c \in CallIds : CallIsBounded(calls[c]))
    /\ \A c \in CallIds : (calls[c].pc = "Sending") ~> Ended(calls[c])

\* C4 witness: a call that went through Sending, the lookup and the retry.
C4_Witness ==
    \E c \in CallIds :
        /\ calls[c].visited = <<"Sending", "LookingUpExisting", "Retrying", "Failed">>
        /\ Len(calls[c].sent) = 3

\* A PUT to /api/content/{id} whose payload has an ancestors instruction.
IsPageUpdateWithAncestors(req) ==
    /\ Has(req, "method") /\ req.method \in {"PUT", "put"}
    /\ Len(req.url) = 3 /\ req.url[1] = "api" /\ req.url[2] = "content"
    /\ req.data.kind = "json"
    /\ Has(req.data.json, "ancestors")

\* C5: for a page update whose payload has an ancestors instruction, the
\* payload sent has no ancestors field on the self-hosted variant and has the
\* ancestors field unchanged on the hosted variant.
C5_AncestorsPerVariant ==
    \A c \in CallIds :
        LET call == calls[c]
        IN  (InFlight(call) /\ IsPageUpdateWithAncestors(call.original))
            => LET sentPayload == call.sent[1].body.json
               IN  IF SelfHosted
                   THEN ~Has(sentPayload, "ancestors")
                   ELSE /\ Has(sentPayload, "ancestors")
                        /\ sentPayload.ancestors = call.original.data.json.ancestors

\* C5 witness: a page update with ancestors was sent on the self-hosted variant.
C5_Witness ==
    \E c \in CallIds :
        /\ SelfHosted
        /\ InFlight(calls[c])
        /\ IsPageUpdateWithAncestors(calls[c].original)
        /\ ~Has(calls[c].sent[1].body.json, "ancestors")

\* The method the caller asked for, as an HTTP verb.
AskedVerb(req) ==
    IF ~Has(req, "method") THEN "GET"
    ELSE IF req.method = "put" THEN "PUT" ELSE req.method

\* C6: a PUT to a path ending in /child/attachment is sent as POST on the
\* self-hosted variant with the rewrite remembered, and as PUT with no rewrite
\* remembered on the hosted variant; any other method or path is sent with its
\* method unchanged on both variants.
C6_MethodRewrite ==
    \A c \in CallIds :
        LET call == calls[c]
        IN  InFlight(call) =>
            IF IsPutUpload(call.original)
            THEN IF SelfHosted
                 THEN call.sent[1].method = "POST" /\ call.isRewrittenAttachmentPost
                 ELSE call.sent[1].method = "PUT" /\ ~call.isRewrittenAttachmentPost
            ELSE /\ call.sent[1].method = AskedVerb(call.original)
                 /\ ~call.isRewrittenAttachmentPost

\* C6 witness: a PUT upload went out as POST on the self-hosted variant.
C6_Witness ==
    \E c \in CallIds :
        /\ SelfHosted
        /\ IsPutUpload(calls[c].original)
        /\ calls[c].pc = "Sending"
        /\ calls[c].sent[1].method = "POST"
        /\ calls[c].isRewrittenAttachmentPost

\* The caller's payload embeds a tree that parses and that the codec converts.
EmbedsConvertibleTree(req) ==
    /\ Has(req, "method") /\ req.method \in {"PUT", "put"}
    /\ Len(req.url) >= 2 /\ req.url[1] = "api" /\ req.url[2] = "content"
    /\ req.data.kind = "json"
    /\ Has(req.data.json, "body")
    /\ Has(req.data.json.body, "atlas_doc_format")
    /\ Has(req.data.json.body.atlas_doc_format.value, "json")
    /\ ~convertThrows(req.data.json.body.atlas_doc_format.value.json)

TreeOf(req) == req.data.json.body.atlas_doc_format.value.json

\* The body holds the storage representation with this value and nothing else.
HoldsOnlyStorage(payload, value) ==
    /\ Has(payload, "body")
    /\ DOMAIN payload.body = {"storage"}
    /\ payload.body.storage = [value |-> value, representation |-> "storage"]

\* The fields other than body are those of the caller's payload, unchanged.
OtherFieldsUnchanged(payload, sentPayload, removed) ==
    /\ DOMAIN sentPayload \ {"body"} = (DOMAIN payload \ {"body"}) \ removed
    /\ \A f \in DOMAIN sentPayload \ {"body"} : sentPayload[f] = payload[f]

\* C7 as stated: the payload sent holds only the storage representation whose
\* value is the codec's output for the tree, and its other fields are unchanged.
C7_AsStated ==
    \A c \in CallIds :
        LET call == calls[c]
        IN  (InFlight(call) /\ EmbedsConvertibleTree(call.original))
            => /\ HoldsOnlyStorage(call.sent[1].body.json,
                                   convertAdfToStorageFormat(TreeOf(call.original)))
               /\ OtherFieldsUnchanged(call.original.data.json, call.sent[1].body.json, {})

\* C7 amended: for a content-update write whose payload embeds a tree that
\* parses and converts, the payload sent has a body holding only the storage
\* representation and no tree.  On the hosted variant its value is the codec's
\* output and the other fields are unchanged; on the self-hosted variant its
\* value is the codec's output with every /wiki/spaces/ replaced by /spaces/,
\* and the other fields are unchanged except that ancestors is removed.
C7_StorageSubstitution ==
    \A c \in CallIds :
        LET call == calls[c]
            markup == convertAdfToStorageFormat(TreeOf(call.original))
        IN  (InFlight(call) /\ EmbedsConvertibleTree(call.original))
            => IF Hosted
               THEN /\ HoldsOnlyStorage(call.sent[1].body.json, markup)
                    /\ OtherFieldsUnchanged(call.original.data.json,
                                            call.sent[1].body.json, {})
               ELSE /\ HoldsOnlyStorage(call.sent[1].body.json,
                            [i \in 1..Len(markup) |->
                                IF markup[i] = "/wiki/spaces/" THEN "/spaces/" ELSE markup[i]])
                    /\ OtherFieldsUnchanged(call.original.data.json,
                                            call.sent[1].body.json, {"ancestors"})

\* C7 witness: a page update whose tree has a /wiki/spaces/ link and whose
\* payload has ancestors was sent on the self-hosted variant.
C7_Witness ==
    \E c \in CallIds :
        /\ SelfHosted
        /\ calls[c].pc = "Sending"
        /\ EmbedsConvertibleTree(calls[c].original)
        /\ TreeOf(calls[c].original) = LinkDoc
        /\ Has(calls[c].original.data.json, "ancestors")
        /\ "/spaces/" \in Range(calls[c].sent[1].body.json.body.storage.value)

\* The caller's payload embeds a value that does not parse or a tree the codec
\* throws on.
EmbedsFailingTree(req) ==
    /\ Has(req, "method") /\ req.method \in {"PUT", "put"}
    /\ Len(req.url) >= 2 /\ req.url[1] = "api" /\ req.url[2] = "content"
    /\ req.data.kind = "json"
    /\ Has(req.data.json, "body")
    /\ Has(req.data.json.body, "atlas_doc_format")
    /\ LET value == req.data.json.body.atlas_doc_format.value
       IN  ~Has(value, "json") \/ convertThrows(value.json)

\* C8: when parsing the embedded tree or running the codec throws, the request
\* is sent with its body.atlas_doc_format unmodified, and the call's outcome is
\* decided by the HTTP response alone: a result when the status is below 400
\* and the body can be read, that response's error when the status is 400 or
\* more (or what the request primitive or the reading of the body threw).
C8_FailedConversionFallsBack ==
    \A c \in CallIds :
        LET call == calls[c]
        IN  (InFlight(call) /\ EmbedsFailingTree(call.original))
            => /\ Len(call.sent) = 1
               /\ call.sent[1].body.kind = "json"
               /\ call.sent[1].body.json.body = call.original.data.json.body
               /\ call.pc = "Done"
                      => /\ call.response.status < 400
                         /\ call.outcome.kind = "result"
               /\ call.pc = "Failed"
                      => IF call.response.status = 0 \/ Unreadable(call.response)
                         THEN /\ ~Has(call.outcome.error, "response")
                              /\ call.outcome.error.name \in {"Error", "SyntaxError"}
                         ELSE /\ call.response.status >= 400
                              /\ DeliversOriginalError(call)
               /\ Succeeds(call.response) => call.pc = "Done"

\* C8 witness: a page update whose embedded value does not parse ended in Done.
C8_Witness ==
    \E c \in CallIds :
        /\ calls[c].pc = "Done"
        /\ EmbedsFailingTree(calls[c].original)
        /\ ~Has(calls[c].original.data.json.body.atlas_doc_format.value, "json")
        /\ Has(calls[c].sent[1].body.json.body, "atlas_doc_format")

\* The results sequence of a response body; << >> when it has none.
ResultsIn(response) ==
    IF response.body.kind = "json" /\ Has(response.body.json, "results")
    THEN response.body.json.results
    ELSE << >>

\* The cache maps the descriptor's id, and its alternate file id when that is
\* present and differs from the id, to the descriptor's title.
IsCached(r) ==
    /\ r.id \in DOMAIN attachmentFileMap
    /\ attachmentFileMap[r.id] = r.title
    /\ (Has(r, "extensions") /\ Has(r.extensions, "fileId") /\ r.extensions.fileId # r.id)
           => /\ r.extensions.fileId \in DOMAIN attachmentFileMap
              /\ attachmentFileMap[r.extensions.fileId] = r.title

SuccessfulResponsesOf(call) ==
    {r \in {call.response, call.listResponse, call.retryResponse} :
         r.status # 0 /\ r.status < 400}

\* An attachment descriptor that has an id and a title.
IsDescriptor(r) ==
    Has(r, "type") /\ r.type = "attachment" /\ Has(r, "id") /\ Has(r, "title")

\* C9 as stated: after any successful response whose body has a results
\* sequence, every attachment descriptor in it with an id and a title is cached.
C9_AsStated ==
    \A c \in CallIds : \A response \in SuccessfulResponsesOf(calls[c]) :
        \A k \in 1..Len(ResultsIn(response)) :
            IsDescriptor(ResultsIn(response)[k]) => IsCached(ResultsIn(response)[k])

\* The response whose body the call delivers as its result.
DeliveredResponse(call) ==
    IF call.response.status < 400 THEN call.response ELSE call.retryResponse

\* C9 amended: after a successful response that the call delivers as its result
\* (the first response, or the retry's) and whose body has a results sequence,
\* every entry of type attachment with an id and a title is cached under its id
\* and under its alternate file id when present and different.  The listing
\* made during duplicate recovery is not scanned.
C9_DeliveredAttachmentsCached ==
    \A c \in CallIds :
        calls[c].pc = "Done" =>
            \A k \in 1..Len(ResultsIn(DeliveredResponse(calls[c]))) :
                LET r == ResultsIn(DeliveredResponse(calls[c]))[k]
                IN  IsDescriptor(r) => IsCached(r)

\* C9 witness: a delivered response listed an attachment with a different file
\* id, and both keys are cached.
C9_Witness ==
    \E c \in CallIds :
        /\ calls[c].pc = "Done"
        /\ \E k \in 1..Len(ResultsIn(calls[c].response)) :
               LET r == ResultsIn(calls[c].response)[k]
               IN  /\ Has(r, "id") /\ r.id = "att1"
                   /\ Has(r, "extensions") /\ r.extensions.fileId = "file1"
        /\ {"att1", "file1"} \subseteq DOMAIN attachmentFileMap

\* The ids and file ids of the descriptors in the response bodies a call observed.
ObservedIds(call) ==
    UNION {LET results == IF r.body.kind = "json"
                          THEN Get(WrapResults(r.body.json), "results", << >>)
                          ELSE << >>
           IN  UNION {{results[k].id : k \in {j \in 1..Len(results) : Has(results[j], "id")}},
                      {results[k].extensions.fileId :
                          k \in {j \in 1..Len(results) :
                                    Has(results[j], "extensions")
                                    /\ Has(results[j].extensions, "fileId")}}}
           : r \in {call.response, call.listResponse, call.retryResponse}}

\* C10: the cache is empty at construction; no step removes a key or changes
\* the cache other than by adding; every key a step adds is an id or a file id
\* of a descriptor in a response body observed by a call.
C10_CacheOnlyGrows ==
    /\ attachmentFileMap = << >>
    /\ [][/\ DOMAIN attachmentFileMap \subseteq DOMAIN attachmentFileMap'
          /\ \A key \in DOMAIN attachmentFileMap' \ DOMAIN attachmentFileMap :
                 \E c \in CallIds : key \in ObservedIds(calls'[c])]_vars

\* C10 witness: the cache holds keys added by more than one call.
C10_Witness ==
    /\ {"att1", "file1", "att2"} \subseteq DOMAIN attachmentFileMap
    /\ \E c \in CallIds : calls[c].pc = "Idle"

\* C11: the cache changes only in the step that hands a call's response data to
\* the caller (a call going from Sending or Retrying to Done).  The outbound
\* step, the step that starts the lookup or the retry, and every step that ends
\* a call in Failed (an error status with no successful retry, or an exception
\* of the request primitive) leave the cache exactly as it was.
C11_CacheChangesOnlyOnDelivery ==
    [][/\ attachmentFileMap' # attachmentFileMap
          => \E c \in CallIds : /\ calls[c].pc \in {"Sending", "Retrying"}
                                /\ calls'[c].pc = "Done"
       /\ (\E c \in CallIds : calls[c].pc = "Idle" /\ calls'[c].pc = "Sending")
          => attachmentFileMap' = attachmentFileMap
       /\ (\E c \in CallIds : calls[c].pc # "Failed" /\ calls'[c].pc = "Failed")
          => attachmentFileMap' = attachmentFileMap]_vars

\* C11 witness: a call failed after a listing that named an attachment, and the
\* cache does not hold that attachment.
C11_Witness ==
    \E c \in CallIds :
        /\ calls[c].pc = "Failed"
        /\ ListsExisting(calls[c].listResponse, DiagramPng, "att1")
        /\ "att1" \notin DOMAIN attachmentFileMap

\* sub occurs in s as a run of consecutive lexemes.
Contains(s, sub) ==
    \E i \in 0..(Len(s) - Len(sub)) : SubSeq(s, i + 1, i + Len(sub)) = sub

\* The tree has been converted at least once.
Converted == outputs # << >>

\* The tree is a document whose second block is a single-media wrapper.
HasMediaSingle(tree) ==
    /\ Get(tree, "type", "") = "doc"
    /\ Has(tree, "content") /\ Len(tree.content) = 3
    /\ Get(tree.content[2], "type", "") = "mediaSingle"

MediaOf(tree) == tree.content[2].content[1]

\* An attachment-addressed media node: not an external one.
IsAttachmentMedia(tree) ==
    HasMediaSingle(tree) /\ MediaOf(tree).attrs.type = "file"

\* An image element that references the file name.
ImageReferencing(filename) ==
    <<"<ri:attachment ri:filename=\"">> \o escapeHtml(filename) \o <<"\" />", "</ac:image>">>

\* C12 as stated: for an attachment-addressed media node that has an id but
\* neither a file name nor alt text, when the cache maps that id to a file
\* name, the markup contains an image element that references that file name.
C12_AsStated ==
    (/\ Converted
     /\ IsAttachmentMedia(adf)
     /\ ~Has(MediaOf(adf).attrs, "__fileName")
     /\ ~Has(MediaOf(adf).attrs, "alt")
     /\ MediaOf(adf).attrs.id \in DOMAIN attachmentFileMap)
        => Contains(outputs[1], ImageReferencing(attachmentFileMap[MediaOf(adf).attrs.id]))

\* The file name the claim says is referenced: the explicit file name when
\* present, otherwise the alt text; << >> when neither is there.
ResolvedFilename(attrs) ==
    IF Has(attrs, "__fileName") THEN attrs.__fileName
    ELSE IF Has(attrs, "alt") THEN attrs.alt ELSE << >>

\* The document with the media node taken out of its wrapper.
WithoutMedia(tree) == [tree EXCEPT !.content[2].content = << >>]

ImageLexemes == {"<ac:image", "<ri:attachment ri:filename=\"", "<ri:url ri:value=\""}

\* C13: for an attachment-addressed media node the markup references the
\* explicit file name when present, otherwise the alt text, in one image
\* element; when neither is present the markup has no image element and is the
\* markup of the document without the node.
C13_MediaFilename ==
    (Converted /\ IsAttachmentMedia(adf))
        => LET filename == ResolvedFilename(MediaOf(adf).attrs)
           IN  IF filename # << >>
               THEN /\ Contains(outputs[1], ImageReferencing(filename))
                    /\ Cardinality({i \in 1..Len(outputs[1]) :
                                       outputs[1][i] = "<ri:attachment ri:filename=\""}) = 1
               ELSE /\ outputs[1] = convertAdfToStorageFormat(WithoutMedia(adf))
                    /\ Range(outputs[1]) \cap ImageLexemes = {}

\* C13 witness: a media node with both an explicit file name and alt text was
\* converted, and the markup references the explicit file name.
C13_Witness ==
    /\ Converted
    /\ IsAttachmentMedia(adf)
    /\ Has(MediaOf(adf).attrs, "__fileName")
    /\ Has(MediaOf(adf).attrs, "alt")
    /\ Contains(outputs[1], ImageReferencing(MediaOf(adf).attrs.__fileName))

\* The tree is a document holding one paragraph with one text node that has marks.
IsMarkedText(tree) ==
    /\ Get(tree, "type", "") = "doc"
    /\ Has(tree, "content") /\ Len(tree.content) = 1
    /\ Get(tree.content[1], "type", "") = "paragraph"
    /\ Has(tree.content[1], "content") /\ Len(tree.content[1].content) = 1
    /\ Get(tree.content[1].content[1], "type", "") = "text"
    /\ Has(tree.content[1].content[1], "text")
    /\ Has(tree.content[1].content[1], "marks")

MarkedTextOf(tree) == tree.content[1].content[1]

\* The opening and the closing part of a mark's wrapper; nothing for a mark of
\* unknown type.
OpenOf(mark) ==
    CASE mark.type = "strong" -> <<"<strong>">>
      [] mark.type = "em" -> <<"<em>">>
      [] mark.type = "subsup" /\ mark.attrs.type = "sub" -> <<"<sub>">>
      [] mark.type = "link" -> <<"<a href=\"">> \o escapeHtml(mark.attrs.href) \o <<"\">">>
      [] OTHER -> << >>

CloseOf(mark) ==
    CASE mark.type = "strong" -> <<"</strong>">>
      [] mark.type = "em" -> <<"</em>">>
      [] mark.type = "subsup" /\ mark.attrs.type = "sub" -> <<"</sub>">>
      [] mark.type = "link" -> <<"</a>">>
      [] OTHER -> << >>

\* The wrappers nested in declaration order, the first mark outermost.
RECURSIVE NestedOutsideIn(_, _)
NestedOutsideIn(marks, inner) ==
    IF marks = << >> THEN inner
    ELSE OpenOf(Head(marks)) \o NestedOutsideIn(Tail(marks), inner) \o CloseOf(Head(marks))

\* C14: for a text node with marks m1..mn the markup is the wrappers nested in
\* declaration order from the outside in around the escaped text: m1's element
\* outermost, mn's innermost, and a mark of unknown type adds no wrapper and
\* leaves the order of the others as it is.
C14_MarksNestOutsideIn ==
    (Converted /\ IsMarkedText(adf))
        => outputs[1] =
               <<"<p>">>
                   \o NestedOutsideIn(MarkedTextOf(adf).marks,
                                      escapeHtml(MarkedTextOf(adf).text))
                   \o <<"</p>">>

\* C14 witness: strong, an unknown mark and em, in that order, were converted
\* to strong around em around the text.
C14_Witness ==
    /\ Converted
    /\ IsMarkedText(adf)
    /\ MarkedTextOf(adf).marks = <<[type |-> "strong"], [type |-> "glow"], [type |-> "em"]>>
    /\ Contains(outputs[1], <<"<p>", "<strong>", "<em>">>)
    /\ Contains(outputs[1], <<"</em>", "</strong>", "</p>">>)

Specials == {"<", ">", "&", "\""}

\* The attributes that carry literal text.
LiteralAttrs ==
    {"href", "color", "url", "text", "shortName", "title", "panelType", "layout",
     "background", "language", "__fileName", "alt", "width"}

\* The text with every special character replaced by a harmless one.
Harmless(text) == [i \in 1..Len(text) |-> IF text[i] \in Specials THEN "x" ELSE text[i]]

HarmlessAttrs(attrs, isMention) ==
    [f \in DOMAIN attrs |->
        IF f \in LiteralAttrs \/ (f = "id" /\ isMention) THEN Harmless(attrs[f]) ELSE attrs[f]]

\* The tree with the special characters of all its literal text replaced.
RECURSIVE HarmlessTree(_)
HarmlessTree(node) ==
    [f \in DOMAIN node |->
        CASE f = "text" -> Harmless(node.text)
          [] f = "attrs" -> HarmlessAttrs(node.attrs, Get(node, "type", "") = "mention")
          [] f = "marks" ->
                [i \in 1..Len(node.marks) |->
                    IF Has(node.marks[i], "attrs")
                    THEN [node.marks[i] EXCEPT !.attrs = HarmlessAttrs(@, FALSE)]
                    ELSE node.marks[i]]
          [] f = "content" -> [i \in 1..Len(node.content) |-> HarmlessTree(node.content[i])]
          [] OTHER -> node[f]]

\* How many special characters stand unescaped in the markup outside the
\* literal bodies of code macros.
RECURSIVE BareSpecials(_, _)
BareSpecials(markup, inLiteralBody) ==
    IF markup = << >> THEN 0
    ELSE IF inLiteralBody
         THEN BareSpecials(Tail(markup), Head(markup) # "</ac:plain-text-body>")
         ELSE IF Head(markup) = "<![CDATA["
              THEN BareSpecials(Tail(markup), TRUE)
              ELSE (IF Head(markup) \in Specials THEN 1 ELSE 0)
                       + BareSpecials(Tail(markup), FALSE)

\* C16 as stated: no < > & or " taken from the tree's literal text stands
\* unescaped in the markup outside a code block's literal body: the markup has
\* as many unescaped special characters there as the markup of the same tree
\* with the special characters of its literal text replaced by harmless ones.
C16_AsStated ==
    Converted
        => BareSpecials(outputs[1], FALSE)
               = BareSpecials(convertAdfToStorageFormat(HarmlessTree(adf)), FALSE)

\* The tree is a document holding one code block.
IsCodeDoc(tree) ==
    /\ Get(tree, "type", "") = "doc"
    /\ Has(tree, "content") /\ Len(tree.content) = 1
    /\ Get(tree.content[1], "type", "") = "codeBlock"
    /\ Has(tree.content[1], "content")

\* The text of the leaves, one after the other, as the tree has it.
RECURSIVE LeafText(_)
LeafText(leaves) ==
    IF leaves = << >> THEN << >> ELSE Head(leaves).text \o LeafText(Tail(leaves))

\* C17: the markup of a code block is the code macro, its language parameter
\* when it has one, and one plain-text body that holds, between the opening and
\* the closing of one character-data block, exactly the leaves' text in order
\* with < > & and " as the tree has them.
C17_CodeBodyIsLiteral ==
    (Converted /\ IsCodeDoc(adf))
        => \E param \in {<< >>,
                         <<"<ac:parameter ac:name=\"language\">", "js", "</ac:parameter>">>} :
               /\ (param # << >>) <=> Has(adf.content[1], "attrs")
               /\ outputs[1] =
                      <<"<ac:structured-macro ac:name=\"code\">">> \o param
                          \o <<"<ac:plain-text-body>", "<![CDATA[">>
                          \o LeafText(adf.content[1].content)
                          \o <<"]]>", "</ac:plain-text-body>", "</ac:structured-macro>">>

\* C17 witness: a code block with two leaves, one of them carrying markup
\* characters, was converted with those characters as they are.
C17_Witness ==
    /\ Converted
    /\ IsCodeDoc(adf)
    /\ Len(adf.content[1].content) = 2
    /\ Contains(outputs[1], <<"<![CDATA[", "a", "<", "b", "&", "\"", "]]>">>)

\* The tree is a document holding a table of one row with one cell.
IsCellDoc(tree) ==
    /\ Get(tree, "type", "") = "doc"
    /\ Has(tree, "content") /\ Len(tree.content) = 1
    /\ Get(tree.content[1], "type", "") = "table"
    /\ Has(tree.content[1], "content")

CellOf(tree) == tree.content[1].content[1].content[1]

\* The span value is present and greater than 1.
SpansMore(attrs, span) == Has(attrs, span) /\ attrs[span] > 1

\* The cell's tag, as far as its span attributes go.
CellTag(cell) ==
    <<IF cell.type = "tableHeader" THEN "<th" ELSE "<td">>
        \o (IF SpansMore(cell.attrs, "colspan")
            THEN <<" colspan=\"", ToString(cell.attrs.colspan), "\"">> ELSE << >>)
        \o (IF SpansMore(cell.attrs, "rowspan")
            THEN <<" rowspan=\"", ToString(cell.attrs.rowspan), "\"">> ELSE << >>)
        \o <<">">>

\* C18: the tag of a header cell or data cell carries a colspan attribute if
\* and only if the node's colspan is present and greater than 1, and a rowspan
\* attribute if and only if its rowspan is present and greater than 1; a value
\* that is absent, 0 or 1 gives no attribute.
C18_SpanAttributes ==
    (Converted /\ IsCellDoc(adf))
        => /\ (" colspan=\"" \in Range(outputs[1])) <=> SpansMore(CellOf(adf).attrs, "colspan")
           /\ (" rowspan=\"" \in Range(outputs[1])) <=> SpansMore(CellOf(adf).attrs, "rowspan")
           /\ Contains(outputs[1], CellTag(CellOf(adf)))

\* C18 witness: a header cell with colspan 2 and rowspan 1 was converted to a
\* tag with the colspan attribute alone.
C18_Witness ==
    /\ Converted
    /\ IsCellDoc(adf)
    /\ CellOf(adf).type = "tableHeader"
    /\ CellOf(adf).attrs = [colspan |-> 2, rowspan |-> 1]
    /\ Contains(outputs[1], <<"<th", " colspan=\"", "2", "\"", ">">>)

\* The node types convertNode has a case for.
SupportedTypes ==
    {"doc", "paragraph", "heading", "text", "hardBreak", "rule", "bulletList",
     "orderedList", "listItem", "blockquote", "codeBlock", "table", "tableRow",
     "tableHeader", "tableCell", "mediaSingle", "mediaGroup", "media", "inlineCard",
     "emoji", "panel", "expand", "nestedExpand", "status", "taskList", "taskItem",
     "mention"}

HasType(node) == Has(node, "type")
IsUnknown(node) == HasType(node) /\ node.type \notin SupportedTypes

\* The tree with every node of unknown type replaced, in its parent's content,
\* by its own children, at any depth.  A node without a type is treated the
\* same way when typelessToo holds, and is taken out with its children otherwise.
RECURSIVE SplicedContent(_, _)
Spliced(node, typelessToo) ==
    IF Has(node, "content") /\ Get(node, "type", "") # "codeBlock"
    THEN [node EXCEPT !.content = SplicedContent(@, typelessToo)]
    ELSE node

SplicedContent(children, typelessToo) ==
    IF children = << >> THEN << >>
    ELSE LET child == Head(children)
             rest == SplicedContent(Tail(children), typelessToo)
         IN  IF IsUnknown(child) \/ (~HasType(child) /\ typelessToo)
             THEN SplicedContent(Get(child, "content", << >>), typelessToo) \o rest
             ELSE IF ~HasType(child) THEN rest
                  ELSE <<Spliced(child, typelessToo)>> \o rest

\* The same for the tree's root: what is left is a document of its children.
SplicedTree(tree, typelessToo) ==
    IF IsUnknown(tree) \/ (~HasType(tree) /\ typelessToo)
    THEN Doc(SplicedContent(Get(tree, "content", << >>), typelessToo))
    ELSE IF ~HasType(tree) THEN Doc(<< >>)
         ELSE Spliced(tree, typelessToo)

\* The tree has a node that is not of a supported type.
RECURSIVE HasUnsupported(_)
HasUnsupported(node) ==
    \/ ~HasType(node)
    \/ IsUnknown(node)
    \/ /\ Has(node, "content") /\ node.type # "codeBlock"
       /\ \E i \in 1..Len(node.content) : HasUnsupported(node.content[i])

\* C19 as stated: every node that is not of a supported type, a node with
\* content but no type included, converts to its children's markup in order
\* with no wrapper: the markup is that of the tree with each such node replaced
\* by its children.
C19_AsStated ==
    (Converted /\ HasUnsupported(adf))
        => outputs[1] = convertAdfToStorageFormat(SplicedTree(adf, TRUE))

\* C19 amended: a node whose type is a value that is not one of the supported
\* types converts to its children's markup in order, with no wrapper, at any
\* depth; a node without a type converts to nothing, its children included.
C19_UnknownTypeRendersChildren ==
    (Converted /\ HasUnsupported(adf))
        => outputs[1] = convertAdfToStorageFormat(SplicedTree(adf, FALSE))

\* C19 witness: a futureBlock with two paragraphs was converted to the two
\* paragraphs' markup.
C19_Witness ==
    /\ Converted
    /\ adf = Doc(<<FutureBlock(<<ParaA, ParaB>>)>>)
    /\ outputs[1] = <<"<p>", "a", "</p>", "<p>", "b", "</p>">>

\* Complete opening tags, each with the closing tag that ends its element.
OpenClose ==
    {<<"<p>", "</p>">>, <<"<strong>", "</strong>">>, <<"<em>", "</em>">>,
     <<"<code>", "</code>">>, <<"<s>", "</s>">>, <<"<u>", "</u>">>,
     <<"<sub>", "</sub>">>, <<"<sup>", "</sup>">>,
     <<"<h1>", "</h1>">>, <<"<h2>", "</h2>">>, <<"<h3>", "</h3>">>,
     <<"<h4>", "</h4>">>, <<"<h5>", "</h5>">>, <<"<h6>", "</h6>">>,
     <<"<ul>", "</ul>">>, <<"<ul class=\"task-list\">", "</ul>">>, <<"<ol>", "</ol>">>,
     <<"<li>", "</li>">>, <<"<blockquote>", "</blockquote>">>,
     <<"<tbody>", "</tbody>">>, <<"<tr>", "</tr>">>,
     <<"<ac:structured-macro ac:name=\"code\">", "</ac:structured-macro>">>,
     <<"<ac:structured-macro ac:name=\"panel\">", "</ac:structured-macro>">>,
     <<"<ac:structured-macro ac:name=\"expand\">", "</ac:structured-macro>">>,
     <<"<ac:structured-macro ac:name=\"status\">", "</ac:structured-macro>">>,
     <<"<ac:parameter ac:name=\"language\">", "</ac:parameter>">>,
     <<"<ac:parameter ac:name=\"panelType\">", "</ac:parameter>">>,
     <<"<ac:parameter ac:name=\"title\">", "</ac:parameter>">>,
     <<"<ac:parameter ac:name=\"colour\">", "</ac:parameter>">>,
     <<"<ac:plain-text-body>", "</ac:plain-text-body>">>,
     <<"<ac:rich-text-body>", "</ac:rich-text-body>">>,
     <<"<ac:task>", "</ac:task>">>, <<"<ac:task-status>", "</ac:task-status>">>,
     <<"<ac:task-body>", "</ac:task-body>">>, <<"<ac:link>", "</ac:link>">>}

\* Beginnings of an opening tag that stop between two attributes.
TagStarts ==
    {<<"<table", "</table>">>, <<"<th", "</th>">>, <<"<td", "</td>">>,
     <<"<ac:image", "</ac:image>">>}

\* Beginnings of an opening tag that stop inside an attribute value.  An
\* element written with the empty-element ending has no closing tag.
ValueStarts ==
    {<<"<a href=\"", "</a>">>, <<"<span style=\"color: ", "</span>">>,
     <<"<ri:url ri:value=\"", "">>, <<"<ri:attachment ri:filename=\"", "">>,
     <<"<ri:user ri:account-id=\"", "">>}

\* Beginnings of an attribute: they stop inside its value.
AttrStarts ==
    {" colspan=\"", " rowspan=\"", " style=\"", " style=\"background-color: ",
     " class=\"", " ac:width=\""}

EmptyElements == {"<br />", "<hr />"}

Firsts(pairs) == {p[1] : p \in pairs}
CloserIn(pairs, lexeme) == (CHOOSE p \in pairs : p[1] = lexeme)[2]
ClosingTags == {p[2] : p \in OpenClose \cup TagStarts \cup ValueStarts} \ {""}

\* The markup, read from left to right, is well-formed.  open is the stack
\* of closing tags still expected, innermost first; mode says where the reader
\* is: in element content, between the attributes of an opening tag, inside an
\* attribute value, or inside a character-data block; pending is the closing
\* tag of the element whose opening tag is being read.
RECURSIVE WellFormedFrom(_, _, _, _)
WellFormedFrom(markup, open, mode, pending) ==
    IF markup = << >> THEN mode = "content" /\ open = << >>
    ELSE
    LET h == Head(markup)
        t == Tail(markup)
    IN  CASE mode = "cdata" ->
               WellFormedFrom(t, open, IF h = "]]>" THEN "content" ELSE "cdata", "")
          [] mode = "content" ->
               IF h \in Firsts(OpenClose)
               THEN WellFormedFrom(t, <<CloserIn(OpenClose, h)>> \o open, "content", "")
               ELSE IF h \in ClosingTags
               THEN open # << >> /\ Head(open) = h
                    /\ WellFormedFrom(t, Tail(open), "content", "")
               ELSE IF h \in Firsts(TagStarts)
               THEN WellFormedFrom(t, open, "tag", CloserIn(TagStarts, h))
               ELSE IF h \in Firsts(ValueStarts)
               THEN WellFormedFrom(t, open, "value", CloserIn(ValueStarts, h))
               ELSE IF h = "<![CDATA["
               THEN WellFormedFrom(t, open, "cdata", "")
               ELSE IF h \in {"<", "&", "]]>"}
               THEN FALSE
               ELSE WellFormedFrom(t, open, "content", "")
          [] mode = "tag" ->
               IF h = ">"
               THEN WellFormedFrom(t, <<pending>> \o open, "content", "")
               ELSE IF h \in AttrStarts
               THEN WellFormedFrom(t, open, "value", pending)
               ELSE FALSE
          [] mode = "value" ->
               IF h = "\"" THEN WellFormedFrom(t, open, "tag", pending)
               ELSE IF h = "\">"
               THEN pending # "" /\ WellFormedFrom(t, <<pending>> \o open, "content", "")
               ELSE IF h = "\" />"
               THEN WellFormedFrom(t, open, "content", "")
               ELSE IF h \in {"<", "&"}
               THEN FALSE
               ELSE WellFormedFrom(t, open, "value", pending)

WellFormed(markup) == WellFormedFrom(markup, << >>, "content", "")

\* C20 as stated: the markup of every document made of supported node types
\* only is well-formed: every opened tag, macro element and character-data
\* block is closed exactly once and in nested order, whatever text the leaves
\* carry.
C20_AsStated ==
    (Converted /\ ~HasUnsupported(adf)) => WellFormed(outputs[1])

\* The value is a string: a sequence of lexemes.
IsString(value) ==
    /\ DOMAIN value = 1..Len(value)
    /\ \A i \in 1..Len(value) : value[i] \in STRING

\* The tree has, at any depth, a node the predicate holds of.
RECURSIVE SomeNode(_, _)
SomeNode(node, kind) ==
    \/ CASE kind = "absent content" -> ~Has(node, "content")
          [] kind = "absent attrs" -> ~Has(node, "attrs")
          [] kind = "absent text" -> Get(node, "type", "") = "text" /\ ~Has(node, "text")
          [] kind = "empty marks" -> Has(node, "marks") /\ node.marks = << >>
          [] kind = "unknown mark" ->
                Has(node, "marks") /\ \E i \in 1..Len(node.marks) : node.marks[i].type = "glow"
          [] kind = "unknown type" -> IsUnknown(node)
    \/ /\ Has(node, "content")
       /\ \E i \in 1..Len(node.content) : SomeNode(node.content[i], kind)

RewriteLinkPrefixes(markup) ==
    [i \in 1..Len(markup) |->
        IF i > 1 /\ markup[i - 1] = "<a href=\"" /\ markup[i] = "/wiki/spaces/"
        THEN "/spaces/"
        ELSE markup[i]]

\* C22 as stated: the markup sent for a converted tree is, on the self-hosted
\* variant, the codec's output with the path prefix of its hyperlinks changed
\* from /wiki/spaces/ to /spaces/ and nothing else changed (plain text and
\* code-block bodies as converted); on the hosted variant it is the codec's
\* output.
C22_AsStated ==
    \A c \in CallIds :
        LET call == calls[c]
            markup == convertAdfToStorageFormat(TreeOf(call.original))
        IN  (InFlight(call) /\ EmbedsConvertibleTree(call.original))
            => call.sent[1].body.json.body.storage.value =
                   IF SelfHosted THEN RewriteLinkPrefixes(markup) ELSE markup

\* The text is longer than the limit the error message cuts the body at.
IsLong(text) == LongText \in Range(text)

\* The message has the response's body, cut at the limit when it is longer.
HasTruncatedBody(message, response) ==
    IF response.body.kind = "text" /\ IsLong(response.body.text)
    THEN message.text = response.body.text /\ message.limit = MessageLimit
    ELSE message.text \in {ErrorBodyOf(response), << >>}

\* The call failed with a structured error for the response: its status, its
\* body as data, and the body truncated in the message.
FailsWithErrorOf(call, response) ==
    /\ call.pc = "Failed"
    /\ call.outcome.kind = "error"
    /\ Has(call.outcome.error, "response")
    /\ call.outcome.error.response.status = response.status
    /\ call.outcome.error.response.data = response.body
    /\ HasTruncatedBody(call.outcome.error.message, response)

\* C23 as stated: a call that ended after a first response with status 400 or
\* more, and was not recovered by a successful retry, failed with a structured
\* error carrying that response's status, its body as data and the body
\* truncated in the message; a call whose responses all had a status below
\* 400 did not end with an error.
C23_AsStated ==
    \A c \in CallIds :
        LET call == calls[c]
        IN  /\ (Ended(call) /\ call.response.status >= 400 /\ call.pc # "Done")
                => FailsWithErrorOf(call, call.response)
            /\ (Ended(call) /\ call.response.status # 0 /\ call.response.status < 400)
                => call.outcome.kind = "result"

\* The request primitive threw in the call: its last request has no response.
PrimitiveThrew(call) == Ended(call) /\ ~AllAnswered(call)

\* The state the call was in when it ended.
LastStage(call) == call.visited[Len(call.visited) - 1]

\* C24: an exception thrown by the request primitive reaches the caller
\* unchanged, thrown when no callback was given and as the error argument of
\* the callback otherwise, and the call delivers no result.
C24_TransportExceptionPropagates ==
    \A c \in CallIds :
        LET call == calls[c]
        IN  PrimitiveThrew(call)
            => /\ call.pc = "Failed"
               /\ call.outcome.kind = "error"
               /\ call.outcome.error = TransportError(LastStage(call))
               /\ call.outcome.via = IF call.callback THEN "callback" ELSE "throw"
               /\ call.onResponseCalls = 0

\* C24 witness: the primitive threw during the retry of a call that was given
\* a callback, and the callback got the exception.
C24_Witness ==
    \E c \in CallIds :
        /\ PrimitiveThrew(calls[c])
        /\ calls[c].callback
        /\ LastStage(calls[c]) = "Retrying"
        /\ calls[c].outcome = [kind |-> "error", via |-> "callback",
                               error |-> TransportError("Retrying")]

\* The last publish resolved and its two lists were shown.
PublishReturned == plugin.modal # << >> /\ ~Has(plugin.modal, "errorMessage")

\* The paths of the documents in one of the two lists.
SucceededPaths == {plugin.modal.filesUploadResult[i].adfFile.absoluteFilePath :
                      i \in 1..Len(plugin.modal.filesUploadResult)}
FailedPaths == {plugin.modal.failedFiles[i].fileName : i \in 1..Len(plugin.modal.failedFiles)}

\* Every result of the publisher is in exactly one of the two lists, the
\* documents after a failed one included.
RecordsEveryResult ==
    /\ Len(plugin.modal.filesUploadResult) + Len(plugin.modal.failedFiles) = Len(plugin.adrFiles)
    /\ SucceededPaths \cap FailedPaths = {}
    /\ \A i \in 1..Len(plugin.adrFiles) :
           LET element == plugin.adrFiles[i]
               path == element.node.file.absoluteFilePath
           IN  IF Has(element, "successfulUploadResult")
               THEN path \in SucceededPaths
               ELSE path \in FailedPaths

\* C25 as stated: every result of the publisher ends up in exactly one of the
\* two lists, so that their lengths sum to the number of results, a failed
\* document does not keep later ones from being recorded, and every failed
\* entry carries the document's path and a reason that is not empty.
C25_AsStated ==
    PublishReturned
        => /\ RecordsEveryResult
           /\ \A i \in 1..Len(plugin.modal.failedFiles) :
                  /\ plugin.modal.failedFiles[i].fileName \in Paths
                  /\ plugin.modal.failedFiles[i].reason # ""

\* The call was made with a request object the caller had passed before, first
\* as a create-or-update attachment upload.
ReusesPutUpload(call) ==
    InFlight(call) /\ call.kept # << >> /\ IsPutUpload(call.kept[1].asked)

\* The call recognized the method rewrite, and answered a duplicate-name
\* error with the lookup of the existing attachment.
RecoversDuplicate(call) ==
    /\ call.isRewrittenAttachmentPost
    /\ call.sent[1].method = "POST"
    /\ IsDuplicateError(call.response)
           => Len(call.sent) >= 2 /\ call.sent[2].method = "GET"

\* C26 as stated: on a long-lived self-hosted adapter, a call that is passed
\* the same create-or-update attachment request object again recognizes the
\* method rewrite and recovers a duplicate-name conflict by the retry
\* protocol, as the first call with that object does.
C26_AsStated ==
    \A c \in CallIds : (SelfHosted /\ ReusesPutUpload(calls[c])) => RecoversDuplicate(calls[c])

\* The call read its first response and went on to the lookup.
LooksUp(call) == call.pc \notin {"Idle", "Sending"} /\ Len(call.sent) > 1

\* The call's own request was rewritten and its own first response is a
\* duplicate-name error.
OwnConflict(call) ==
    SelfHosted /\ WasRewritten(call) /\ IsDuplicateError(call.response)

\* C27: with two calls interleaved at their network suspensions, a call goes
\* on to the lookup and retry exactly when its own request was rewritten and
\* its own response is a duplicate-name error, whatever the other call asked
\* for and received; a call whose method was not rewritten sends one request.
C27_RetryDecisionIsPerCall ==
    \A c \in DOMAIN calls :
        LET call == calls[c]
        IN  InFlight(call) =>
            /\ call.pc # "Sending" => (LooksUp(call) <=> OwnConflict(call))
            /\ ~WasRewritten(call) => Len(call.sent) = 1

\* C27 witness: while a rewritten upload that received a duplicate-name error
\* waits for its listing, a POST upload of the other caller received a
\* duplicate-name error too and failed after its single request.
C27_Witness ==
    /\ SelfHosted
    /\ DOMAIN calls = PairIds
    /\ calls[1].pc = "LookingUpExisting" /\ calls[1].isRewrittenAttachmentPost
    /\ Has(calls[2].original, "method") /\ calls[2].original.method = "POST"
    /\ IsDuplicateError(calls[2].response)
    /\ calls[2].pc = "Failed" /\ Len(calls[2].sent) = 1

\* What processAndReturn hands to onResponse, and then to the caller, for the
\* response the call delivers: the body of the first response, or the wrapped
\* body of the retry's.
HandedToOnResponse(call) ==
    PolyfillContainer(IF call.response.status < 400
                      THEN ResponseData(call.response)
                      ELSE WrapResults(ResponseData(call.retryResponse)),
                      call.requestConfig.url)

\* C28: a call in progress has invoked no middleware; a call that delivered a
\* result invoked onResponse once and onError never, with the body of a
\* response below 400 (the first one, or the retry's); a call that delivered
\* an error invoked onError once and onResponse never.
C28_OneMiddlewarePerCall ==
    \A c \in CallIds :
        LET call == calls[c]
        IN  /\ ~Ended(call) => call.onResponseCalls = 0 /\ call.onErrorCalls = 0
            /\ call.pc = "Done"
                   => /\ call.outcome.kind = "result"
                      /\ call.onResponseCalls = 1 /\ call.onErrorCalls = 0
                      /\ Succeeds(DeliveredResponse(call))
                      /\ call.outcome.data = HandedToOnResponse(call)
            /\ call.pc = "Failed"
                   => /\ call.outcome.kind = "error"
                      /\ call.onErrorCalls = 1 /\ call.onResponseCalls = 0

\* C28 witness: a call whose first response was an error delivered the
\* retry's body through onResponse, once.
C28_Witness ==
    \E c \in CallIds :
        /\ calls[c].pc = "Done"
        /\ calls[c].response.status >= 400
        /\ calls[c].retryResponse.status = 201
        /\ calls[c].onResponseCalls = 1 /\ calls[c].onErrorCalls = 0
        /\ Has(calls[c].outcome.data, "results")

\* C29: at most one publish is in progress at any time, isSyncing is true
\* while it is, and a trigger of the ribbon icon, publish-current or
\* publish-all that comes while isSyncing is true starts no publish.
C29_AtMostOnePublish ==
    /\ [](Len(plugin.running) <= 1 /\ (plugin.running # << >> => plugin.isSyncing))
    /\ [][plugin.isSyncing => Len(plugin'.running) <= Len(plugin.running)]_vars

\* C29 witness: the ribbon icon was clicked while a publish started by
\* publish-current was in progress, and that publish is still the only one.
C29_Witness ==
    /\ plugin.isSyncing
    /\ Len(plugin.running) = 1
    /\ plugin.running[1].command = "publish-current"
    /\ plugin.trigger = [command |-> "ribbon", outcome |-> "Syncing already on going"]

\* C30: provided publisher.publish settles, isSyncing, once true, becomes
\* false again; the step in which a publish settles, resolved or rejected,
\* leaves it false; and it is true only while a publish is in progress, so no
\* trigger that returned without starting a publish leaves it true.
C30_SyncingEnds ==
    /\ plugin.isSyncing ~> ~plugin.isSyncing
    /\ [][Len(plugin'.running) < Len(plugin.running) => ~plugin'.isSyncing]_vars
    /\ [](plugin.isSyncing => plugin.running # << >>)
    /\ [][plugin'.trigger.outcome # "started" /\ ~plugin.isSyncing => ~plugin'.isSyncing]_vars

\* C30 witness: a publish was rejected, then publish-current was run without
\* an active file, and isSyncing is false.
C30_Witness ==
    /\ ~plugin.isSyncing
    /\ Has(plugin.modal, "errorMessage")
    /\ plugin.trigger = [command |-> "publish-current",
                         outcome |-> "No active markdown file to publish"]

====
